---- MODULE Spec2Model ----
(***************************************************************************)
(* Growth Index: the calculation engine (growth-index.ts), the two lookup  *)
(* handlers (Yahoo Finance and Alpha Vantage) and their batch loops, and   *)
(* the search page (routes/config/+page.svelte) that calls them.           *)
(*                                                                         *)
(* Numbers.  JavaScript numbers are modelled as exact reals.  A rational   *)
(* is a pair <<n, d>> in lowest terms with d > 0.  The only irrational     *)
(* operation of the engine is Math.sqrt (in stdev); its result is kept     *)
(* exactly as r + c * sqrt(s) (a record [r, c, s], all three rational),    *)
(* and every comparison and rounding of such a value is decided exactly    *)
(* by squaring.  Floating-point representation error is not modelled.      *)
(***************************************************************************)
EXTENDS Integers, Sequences, FiniteSets, TLC

VARIABLES
    call,           \* one call of a function: its arguments and, once returned, its value
    provider,       \* which lookup handler serves the batch request
    request,        \* the parsed request body: [tickers, apiKey]
    hpc,            \* position of the batch handler
    idx,            \* index of the next ticker of the for-loop
    results,        \* the handler's local `results` array
    response,       \* the JSON response of the handler, once sent
    fetched,        \* per ticker passed to fetchCompanyData: [ticker, answer, threw, message]
    currentApiKey,  \* module-level `let currentApiKey` of the Alpha Vantage route
    reqs,           \* the concurrently handled Alpha Vantage requests
    fetchLog,       \* the set of provider fetches issued: [req, ticker, fn, key]
    now,            \* the time in milliseconds since the request arrived
    wake,           \* when the pending delay(1000) of the request resolves
    sentAt,         \* the times at which the request's fetches were sent, in order
    inputValue,     \* page state: the text of the search box
    selectedTickers,\* page state: the chosen tickers, [symbol, name]
    suggestions,    \* page state: the suggestions in the dropdown
    showSuggestions,\* page state
    highlightedIndex,\* page state: 0-based index into suggestions, or -1
    isLoading,      \* page state
    isSearching,    \* page state
    error,          \* page state
    pageResults,    \* page state: the page's `results`
    selectedCompany,\* page state: a result, or null
    searchTimeout,  \* whether the timer set by handleInput is pending
    lookups,        \* the lookup requests of search() calls awaiting their response,
                    \* oldest first; `overtaken` once a later one was answered
    queries,        \* the suggestion fetches awaiting their response, likewise
    history         \* how many handlers have run, how the last answered search()
                    \* ended, and whether results and suggestions were last written
                    \* by an overtaken response

rateVars == <<now, wake, sentAt>>
pageVars == <<inputValue, selectedTickers, suggestions, showSuggestions, highlightedIndex,
              isLoading, isSearching, error, pageResults, selectedCompany, searchTimeout,
              lookups, queries, history>>

vars == <<call, provider, request, hpc, idx, results, response, fetched,
          currentApiKey, reqs, fetchLog, rateVars, pageVars>>

calcVars == <<call>>
batchVars == <<provider, request, hpc, idx, results, response, fetched>>
concVars == <<reqs, fetchLog>>
calcOthers == <<provider, request, hpc, idx, results, response, fetched,
                currentApiKey, reqs, fetchLog, rateVars, pageVars>>

(***************************************************************************)
(* Exact rational arithmetic                                               *)
(***************************************************************************)
Abs(x) == IF x < 0 THEN -x ELSE x

Sign(x) == IF x < 0 THEN -1 ELSE IF x = 0 THEN 0 ELSE 1

RECURSIVE GCD(_, _)
GCD(a, b) == IF b = 0 THEN a ELSE GCD(b, a % b)

Rat(n, d) ==
    LET s == IF d < 0 THEN -1 ELSE 1
        g == GCD(Abs(n), Abs(d))
    IN  <<(s * n) \div g, (s * d) \div g>>

IntRat(n) == <<n, 1>>
Zero == <<0, 1>>
One == <<1, 1>>
Half == <<1, 2>>

\* a decimal literal with one, two or three decimals
Dec1(n) == Rat(n, 10)
Dec2(n) == Rat(n, 100)
Dec3(n) == Rat(n, 1000)

RatNeg(a) == <<-a[1], a[2]>>
RatAdd(a, b) ==
    LET g == GCD(a[2], b[2])
    IN  Rat(a[1] * (b[2] \div g) + b[1] * (a[2] \div g), (a[2] \div g) * b[2])
RatSub(a, b) == RatAdd(a, RatNeg(b))
RatMul(a, b) ==
    LET g1 == GCD(Abs(a[1]), b[2])
        g2 == GCD(Abs(b[1]), a[2])
    IN  Rat((a[1] \div g1) * (b[1] \div g2), (a[2] \div g2) * (b[2] \div g1))
RatDiv(a, b) == RatMul(a, IF b[1] < 0 THEN <<-b[2], -b[1]>> ELSE <<b[2], b[1]>>)
RatSq(a) == <<a[1] * a[1], a[2] * a[2]>>
RatSign(a) == Sign(a[1])
RatAbs(a) == <<Abs(a[1]), a[2]>>
RatFloor(a) == a[1] \div a[2]

\* a < b and a <= b, decided on the continued-fraction expansions so that
\* no product of numerators and denominators is formed
RECURSIVE RatLess(_, _)
RatLess(a, b) ==
    LET fa == a[1] \div a[2]
        fb == b[1] \div b[2]
        ra == a[1] % a[2]
        rb == b[1] % b[2]
    IN  IF fa # fb THEN fa < fb
        ELSE IF rb = 0 THEN FALSE
        ELSE IF ra = 0 THEN TRUE
        ELSE RatLess(<<b[2], rb>>, <<a[2], ra>>)
RatLeq(a, b) == ~RatLess(b, a)
RatMin(a, b) == IF RatLess(b, a) THEN b ELSE a
RatMax(a, b) == IF RatLess(a, b) THEN b ELSE a

RECURSIVE SeqSum(_)
SeqSum(s) == IF s = <<>> THEN Zero ELSE RatAdd(Head(s), SeqSum(Tail(s)))

\* largest i with i * i <= n, for n >= 0 (bisection)
RECURSIVE ISqrtIn(_, _, _)
ISqrtIn(n, lo, hi) ==
    IF hi - lo <= 1 THEN lo
    ELSE LET mid == (lo + hi) \div 2
         IN  IF mid <= n \div mid THEN ISqrtIn(n, mid, hi) ELSE ISqrtIn(n, lo, mid)
ISqrt(n) == IF n < 2 THEN n ELSE ISqrtIn(n, 1, n)
IsSquare(n) == ISqrt(n) * ISqrt(n) = n

(***************************************************************************)
(* Products wider than the model checker's integers: naturals as           *)
(* little-endian sequences of limbs, used only to compare products.        *)
(***************************************************************************)
Limb == 10000

RECURSIVE BigOf(_)
BigOf(n) == IF n < Limb THEN <<n>> ELSE <<n % Limb>> \o BigOf(n \div Limb)

RECURSIVE BigAddC(_, _, _)
BigAddC(a, b, carry) ==
    IF a = <<>> /\ b = <<>> THEN (IF carry = 0 THEN <<>> ELSE <<carry>>)
    ELSE LET x == IF a = <<>> THEN 0 ELSE Head(a)
             y == IF b = <<>> THEN 0 ELSE Head(b)
             t == x + y + carry
         IN  <<t % Limb>> \o BigAddC(IF a = <<>> THEN a ELSE Tail(a),
                                     IF b = <<>> THEN b ELSE Tail(b), t \div Limb)

RECURSIVE BigMulLimb(_, _, _)
BigMulLimb(a, m, carry) ==
    IF a = <<>> THEN (IF carry = 0 THEN <<>> ELSE <<carry>>)
    ELSE LET t == Head(a) * m + carry
         IN  <<t % Limb>> \o BigMulLimb(Tail(a), m, t \div Limb)

RECURSIVE BigMul(_, _)
BigMul(a, b) ==
    IF a = <<>> THEN <<>>
    ELSE BigAddC(BigMulLimb(b, Head(a), 0), <<0>> \o BigMul(Tail(a), b), 0)

RECURSIVE BigTrim(_)
BigTrim(a) ==
    IF a # <<>> /\ a[Len(a)] = 0 THEN BigTrim(SubSeq(a, 1, Len(a) - 1)) ELSE a

RECURSIVE BigLessFrom(_, _, _)
BigLessFrom(a, b, i) ==
    IF i = 0 THEN FALSE
    ELSE IF a[i] # b[i] THEN a[i] < b[i]
    ELSE BigLessFrom(a, b, i - 1)

BigLess(a, b) ==
    LET x == BigTrim(a)
        y == BigTrim(b)
    IN  IF Len(x) # Len(y) THEN Len(x) < Len(y) ELSE BigLessFrom(x, y, Len(x))

\* a^2 <= b for rationals a >= 0 and b >= 0
SqLeq(a, b) ==
    LET an == BigOf(a[1])
        ad == BigOf(a[2])
    IN  ~BigLess(BigMul(BigOf(b[1]), BigMul(ad, ad)), BigMul(BigMul(an, an), BigOf(b[2])))
\* b <= a^2 for rationals a >= 0 and b >= 0
LeqSq(b, a) ==
    LET an == BigOf(a[1])
        ad == BigOf(a[2])
    IN  ~BigLess(BigMul(BigMul(an, an), BigOf(b[2])), BigMul(BigOf(b[1]), BigMul(ad, ad)))

(***************************************************************************)
(* Exact reals of the form r + c * sqrt(s), r, c and s rational, s >= 0    *)
(***************************************************************************)
RealOfRat(a) == [r |-> a, c |-> Zero, s |-> Zero]

IsRational(x) == x.c = Zero

\* Math.sqrt of a non-negative rational
MathSqrt(a) ==
    IF IsSquare(a[1]) /\ IsSquare(a[2])
    THEN RealOfRat(<<ISqrt(a[1]), ISqrt(a[2])>>)
    ELSE [r |-> Zero, c |-> One, s |-> a]

\* k * x for a rational k
RealScale(k, x) ==
    IF k[1] = 0 \/ x.c[1] = 0 THEN RealOfRat(RatMul(k, x.r))
    ELSE [r |-> RatMul(k, x.r), c |-> RatMul(k, x.c), s |-> x.s]

RealAddRat(x, a) == [x EXCEPT !.r = RatAdd(x.r, a)]

\* x <= t and x >= t for a rational t: with e = (t - r) / c, the sign of c
\* and the comparison of sqrt(s) with e decide
RealLeqRat(x, t) ==
    LET d == RatSub(t, x.r)
        e == RatDiv(d, x.c)
    IN  CASE x.c[1] = 0 -> d[1] >= 0
          [] x.c[1] > 0 -> e[1] >= 0 /\ LeqSq(x.s, e)              \* sqrt(s) <= e
          [] OTHER      -> e[1] <= 0 \/ SqLeq(e, x.s)              \* sqrt(s) >= e
RealGeqRat(x, t) ==
    LET d == RatSub(t, x.r)
        e == RatDiv(d, x.c)
    IN  CASE x.c[1] = 0 -> d[1] <= 0
          [] x.c[1] > 0 -> e[1] <= 0 \/ SqLeq(e, x.s)              \* sqrt(s) >= e
          [] OTHER      -> e[1] >= 0 /\ LeqSq(x.s, e)              \* sqrt(s) <= e
RealLessRat(x, t) == ~RealGeqRat(x, t)
RealEqRat(x, t) == RealLeqRat(x, t) /\ RealGeqRat(x, t)

\* the largest integer k in lo..hi-1 with k <= x, given lo <= x < hi
RECURSIVE FloorIn(_, _, _)
FloorIn(x, lo, hi) ==
    IF hi - lo <= 1 THEN lo
    ELSE LET mid == (lo + hi) \div 2
         IN  IF RealGeqRat(x, IntRat(mid)) THEN FloorIn(x, mid, hi) ELSE FloorIn(x, lo, mid)

\* Math.floor: |c * sqrt(s)| < (|c| + 1) * (sqrt(floor(s)) + 1) brackets x
RealFloor(x) ==
    LET m == (RatFloor(RatAbs(x.c)) + 1) * (ISqrt(RatFloor(x.s)) + 1)
    IN  IF x.c[1] = 0 THEN RatFloor(x.r)
        ELSE FloorIn(x, RatFloor(x.r) - m, RatFloor(x.r) + m + 1)

\* Math.round(x): the integer nearest to x, ties towards +Infinity
MathRound(x) == RealFloor(RealAddRat(x, Half))

\* Math.min(a, x) and Math.max(a, x) of a rational a and a real x
MathMin(a, x) == IF RealLeqRat(x, a) THEN x ELSE RealOfRat(a)
MathMax(a, x) == IF RealGeqRat(x, a) THEN x ELSE RealOfRat(a)

\* Math.round(x * scale) / scale
RoundTo(x, scale) == Rat(MathRound(RealScale(IntRat(scale), x)), scale)

(***************************************************************************)
(* growth-index.ts: the calculation engine                                 *)
(***************************************************************************)
DEFAULT_WEIGHTS == [revenue |-> Dec2(35), eps |-> Dec2(30), fcf |-> Dec2(20), margin |-> Dec2(15)]

DefaultMinCf == Dec1(5)
DefaultMaxCf == One
DefaultMinQf == Dec1(7)
DefaultMaxQf == One

\* function mean(values)
mean(values) ==
    IF Len(values) = 0 THEN Zero
    ELSE RatDiv(SeqSum(values), IntRat(Len(values)))

\* the population standard deviation (divisor n)
stdev_population(values) ==
    LET n == Len(values)
        m == RatDiv(SeqSum(values), IntRat(n))
        squaredDiffs == [i \in 1..n |-> RatSq(RatSub(values[i], m))]
        variance == RatDiv(SeqSum(squaredDiffs), IntRat(n))
    IN  IF n < 2 THEN RealOfRat(Zero) ELSE MathSqrt(variance)

\* function stdev(values): the sample standard deviation (divisor n - 1)
stdev(values) ==
    LET n == Len(values)
        m == RatDiv(SeqSum(values), IntRat(n))
        squaredDiffs == [i \in 1..n |-> RatSq(RatSub(values[i], m))]
        variance == RatDiv(SeqSum(squaredDiffs), IntRat(n - 1))
    IN  IF n < 2 THEN RealOfRat(Zero) ELSE MathSqrt(variance)

\* mutant: the coefficient of variation is not clamped
calculateConsistencyFactor_unclamped(annualGrowthRates, minCf, maxCf) ==
    IF Len(annualGrowthRates) < 2 THEN RealOfRat(maxCf)
    ELSE LET meanGrowth == mean(annualGrowthRates)
         IN  IF RatLeq(meanGrowth, Zero) THEN RealOfRat(minCf)
             ELSE LET stdGrowth == stdev(annualGrowthRates)
                      coefficientOfVariation == RealScale(RatDiv(One, meanGrowth), stdGrowth)
                  IN  RealAddRat(RealScale(IntRat(-1), coefficientOfVariation), One)

calculateConsistencyFactor(annualGrowthRates, minCf, maxCf) ==
    IF Len(annualGrowthRates) < 2 THEN RealOfRat(maxCf)
    ELSE LET meanGrowth == mean(annualGrowthRates)
         IN  IF RatLeq(meanGrowth, Zero) THEN RealOfRat(minCf)
             ELSE LET stdGrowth == stdev(annualGrowthRates)
                      coefficientOfVariation == RealScale(RatDiv(One, meanGrowth), stdGrowth)
                      cf == RealAddRat(RealScale(IntRat(-1), coefficientOfVariation), One)
                  IN  MathMax(minCf, MathMin(maxCf, cf))

\* the ratio is not capped at 1.0
calculateQualityFactor_uncapped(roic, wacc, minQf, maxQf) ==
    IF RatLeq(wacc, Zero) THEN maxQf
    ELSE RatAdd(minQf, RatMul(RatSub(maxQf, minQf), RatDiv(roic, wacc)))

calculateQualityFactor(roic, wacc, minQf, maxQf) ==
    IF RatLeq(wacc, Zero) THEN maxQf
    ELSE LET roicWaccRatio == RatMin(One, RatDiv(roic, wacc))
         IN  RatAdd(minQf, RatMul(RatSub(maxQf, minQf), roicWaccRatio))

\* the weighted components and their sum, before any rounding
Components(metrics, weights) ==
    [revenue |-> RatMul(weights.revenue, metrics.revenueCagr),
     eps     |-> RatMul(weights.eps, metrics.epsCagr),
     fcf     |-> RatMul(weights.fcf, metrics.fcfCagr),
     margin  |-> RatMul(weights.margin, metrics.marginDelta)]

\* the margin component is left out of the sum
BaseScore_noMargin(components) ==
    RatAdd(RatAdd(components.revenue, components.eps), components.fcf)

BaseScore(components) ==
    RatAdd(RatAdd(RatAdd(components.revenue, components.eps), components.fcf),
           components.margin)

\* const growthIndex = baseScore * consistencyFactor * qualityFactor
GrowthIndexProduct(baseScore, consistencyFactor, qualityFactor) ==
    RealScale(qualityFactor, RealScale(baseScore, consistencyFactor))

\* mutant: the product is formed from the already rounded outputs
calculateGrowthIndex_rerounded(metrics, weights) ==
    LET components == Components(metrics, weights)
        baseScore == RoundTo(RealOfRat(BaseScore(components)), 100)
        consistencyFactor ==
            RoundTo(calculateConsistencyFactor(metrics.annualRevenueGrowth,
                                               DefaultMinCf, DefaultMaxCf), 1000)
        qualityFactor ==
            RoundTo(RealOfRat(calculateQualityFactor(metrics.roic, metrics.wacc,
                                                     DefaultMinQf, DefaultMaxQf)), 1000)
        growthIndex == RatMul(RatMul(baseScore, consistencyFactor), qualityFactor)
    IN  [growthIndex       |-> RoundTo(RealOfRat(growthIndex), 100),
         baseScore         |-> baseScore,
         consistencyFactor |-> consistencyFactor,
         qualityFactor     |-> qualityFactor,
         components        |->
            [revenue |-> RoundTo(RealOfRat(components.revenue), 100),
             eps     |-> RoundTo(RealOfRat(components.eps), 100),
             fcf     |-> RoundTo(RealOfRat(components.fcf), 100),
             margin  |-> RoundTo(RealOfRat(components.margin), 100)]]

calculateGrowthIndex(metrics, weights) ==
    LET components == Components(metrics, weights)
        baseScore == BaseScore(components)
        consistencyFactor ==
            calculateConsistencyFactor(metrics.annualRevenueGrowth, DefaultMinCf, DefaultMaxCf)
        qualityFactor ==
            calculateQualityFactor(metrics.roic, metrics.wacc, DefaultMinQf, DefaultMaxQf)
        growthIndex == GrowthIndexProduct(baseScore, consistencyFactor, qualityFactor)
    IN  [growthIndex       |-> RoundTo(growthIndex, 100),
         baseScore         |-> RoundTo(RealOfRat(baseScore), 100),
         consistencyFactor |-> RoundTo(consistencyFactor, 1000),
         qualityFactor     |-> RoundTo(RealOfRat(qualityFactor), 1000),
         components        |->
            [revenue |-> RoundTo(RealOfRat(components.revenue), 100),
             eps     |-> RoundTo(RealOfRat(components.eps), 100),
             fcf     |-> RoundTo(RealOfRat(components.fcf), 100),
             margin  |-> RoundTo(RealOfRat(components.margin), 100)]]

\* mutant: the boundaries are exclusive
interpretGrowthIndex_exclusive(gi) ==
    IF RatLess(IntRat(40), gi) THEN [label |-> "Exceptional Growth", color |-> "purple"]
    ELSE IF RatLess(IntRat(25), gi) THEN [label |-> "Strong Growth", color |-> "green"]
    ELSE IF RatLess(IntRat(15), gi) THEN [label |-> "Moderate Growth", color |-> "yellow"]
    ELSE IF RatLess(IntRat(5), gi) THEN [label |-> "Low Growth", color |-> "orange"]
    ELSE [label |-> "Declining/Stagnant", color |-> "red"]

interpretGrowthIndex(gi) ==
    IF RatLeq(IntRat(40), gi) THEN [label |-> "Exceptional Growth", color |-> "purple"]
    ELSE IF RatLeq(IntRat(25), gi) THEN [label |-> "Strong Growth", color |-> "green"]
    ELSE IF RatLeq(IntRat(15), gi) THEN [label |-> "Moderate Growth", color |-> "yellow"]
    ELSE IF RatLeq(IntRat(5), gi) THEN [label |-> "Low Growth", color |-> "orange"]
    ELSE [label |-> "Declining/Stagnant", color |-> "red"]

EXAMPLE_COMPANIES ==
    [META |-> [revenueCagr |-> Dec1(188), epsCagr |-> Dec1(667), fcfCagr |-> Dec1(675),
               marginDelta |-> Dec1(83),
               annualRevenueGrowth |-> <<Dec1(157), Dec1(219), Dec1(213)>>,
               roic |-> Dec1(340), wacc |-> Dec1(127)],
     APPLE |-> [revenueCagr |-> Dec1(-4), epsCagr |-> Dec1(-2), fcfCagr |-> Dec1(-12),
                marginDelta |-> Dec1(10),
                annualRevenueGrowth |-> <<Dec1(-28), Dec1(20), Dec1(64)>>,
                roic |-> Dec1(480), wacc |-> Dec1(101)],
     NVIDIA |-> [revenueCagr |-> Dec1(940), epsCagr |-> Dec1(1500), fcfCagr |-> Dec1(850),
                 marginDelta |-> Dec1(150),
                 annualRevenueGrowth |-> <<IntRat(60), IntRat(120), IntRat(100)>>,
                 roic |-> Dec1(450), wacc |-> Dec1(115)]]

\* results.sort((a, b) => b.result.growthIndex - a.result.growthIndex) is a
\* stable sort: x goes before the first entry whose growth index is smaller
RECURSIVE InsertDescending(_, _)
InsertDescending(sorted, x) ==
    IF sorted = <<>> THEN <<x>>
    ELSE IF RatLess(Head(sorted).result.growthIndex, x.result.growthIndex)
    THEN <<x>> \o sorted
    ELSE <<Head(sorted)>> \o InsertDescending(Tail(sorted), x)

RECURSIVE SortDescending(_, _)
SortDescending(scored, n) ==
    IF n = 0 THEN <<>>
    ELSE InsertDescending(SortDescending(scored, n - 1), scored[n])

\* the comparator is a.result.growthIndex - b.result.growthIndex
RECURSIVE InsertAscending(_, _)
InsertAscending(sorted, x) ==
    IF sorted = <<>> THEN <<x>>
    ELSE IF RatLess(x.result.growthIndex, Head(sorted).result.growthIndex)
    THEN <<x>> \o sorted
    ELSE <<Head(sorted)>> \o InsertAscending(Tail(sorted), x)

RECURSIVE SortAscending(_, _)
SortAscending(scored, n) ==
    IF n = 0 THEN <<>>
    ELSE InsertAscending(SortAscending(scored, n - 1), scored[n])

compareCompanies_ascending(companies, weights) ==
    LET scored == [i \in 1..Len(companies) |->
                       [name |-> companies[i].name,
                        ticker |-> companies[i].ticker,
                        result |-> calculateGrowthIndex(companies[i].metrics, weights),
                        metrics |-> companies[i].metrics]]
    IN  [companies |-> companies, results |-> SortAscending(scored, Len(scored))]

\* compareCompanies(companies, weights): the array it returns and the
\* array it was given as the call leaves it
compareCompanies(companies, weights) ==
    LET scored == [i \in 1..Len(companies) |->
                       [name |-> companies[i].name,
                        ticker |-> companies[i].ticker,
                        result |-> calculateGrowthIndex(companies[i].metrics, weights),
                        metrics |-> companies[i].metrics]]
    IN  [companies |-> companies, results |-> SortDescending(scored, Len(scored))]

(***************************************************************************)
(* JavaScript values of the provider payloads                              *)
(*                                                                         *)
(* A payload field is a number, NaN, null, undefined (a missing key) or a  *)
(* string; a string is the sequence of its characters.                     *)
(***************************************************************************)
JSNum(v) == [t |-> "number", v |-> v]
JSNaN == [t |-> "NaN"]
JSNull == [t |-> "null"]
JSUndefined == [t |-> "undefined"]
JSStr(chars) == [t |-> "string", s |-> chars]

Digits == <<"0", "1", "2", "3", "4", "5", "6", "7", "8", "9">>
IsDigit(ch) == \E i \in 1..10 : Digits[i] = ch
DigitValue(ch) == (CHOOSE i \in 1..10 : Digits[i] = ch) - 1

RECURSIVE Pow10(_)
Pow10(k) == IF k = 0 THEN 1 ELSE 10 * Pow10(k - 1)

\* the digits of s from position i on: <<value, number of digits>>
RECURSIVE ScanDigits(_, _, _, _)
ScanDigits(s, i, acc, n) ==
    IF i <= Len(s) /\ IsDigit(s[i])
    THEN ScanDigits(s, i + 1, 10 * acc + DigitValue(s[i]), n + 1)
    ELSE <<acc, n>>

\* parseFloat of a string: optional sign, digits, optional fraction; what
\* follows the longest numeric prefix is ignored; NaN without any digit
ParseFloatStr(s) ==
    LET neg   == s # <<>> /\ s[1] = "-"
        start == IF s # <<>> /\ s[1] \in {"-", "+"} THEN 2 ELSE 1
        ip    == ScanDigits(s, start, 0, 0)
        dot   == start + ip[2]
        fp    == IF dot <= Len(s) /\ s[dot] = "."
                 THEN ScanDigits(s, dot + 1, 0, 0) ELSE <<0, 0>>
        mag   == RatAdd(IntRat(ip[1]), Rat(fp[1], Pow10(fp[2])))
    IN  IF ip[2] + fp[2] = 0 THEN JSNaN
        ELSE JSNum(IF neg THEN RatNeg(mag) ELSE mag)

\* parseFloat(x): a number is itself, null and undefined give NaN
parseFloat(x) ==
    CASE x.t = "string" -> ParseFloatStr(x.s)
      [] x.t = "number" -> x
      [] OTHER          -> JSNaN

\* x || dflt for a number, NaN, null or undefined x: the falsy values are
\* 0, NaN, null and undefined
OrDefault(x, dflt) ==
    IF x.t = "number" /\ x.v # Zero THEN x.v ELSE dflt

\* String.prototype.toUpperCase and trim on sequences of characters
Lower == <<"a", "b", "c", "d", "m", "t">>
Upper == <<"A", "B", "C", "D", "M", "T">>
UpperChar(ch) ==
    IF \E i \in 1..Len(Lower) : Lower[i] = ch
    THEN Upper[CHOOSE i \in 1..Len(Lower) : Lower[i] = ch]
    ELSE ch
toUpperCase(s) == [i \in 1..Len(s) |-> UpperChar(s[i])]

RECURSIVE TrimStart(_)
TrimStart(s) == IF s # <<>> /\ Head(s) = " " THEN TrimStart(Tail(s)) ELSE s
RECURSIVE TrimEnd(_)
TrimEnd(s) == IF s # <<>> /\ s[Len(s)] = " " THEN TrimEnd(SubSeq(s, 1, Len(s) - 1)) ELSE s
trim(s) == TrimEnd(TrimStart(s))

(***************************************************************************)
(* Math.pow(x, 1 / k) for x >= 0: exact on perfect k-th powers, which is   *)
(* what the explored payloads feed it; no other radicand is evaluated.     *)
(***************************************************************************)
\* i^k <= n for naturals, without forming i^k
RECURSIVE PowLeq(_, _, _)
PowLeq(i, k, n) ==
    IF k = 0 THEN 1 <= n
    ELSE IF i = 0 THEN TRUE
    ELSE PowLeq(i, k - 1, n \div i)

RECURSIVE IRootIn(_, _, _, _)
IRootIn(n, k, lo, hi) ==
    IF hi - lo <= 1 THEN lo
    ELSE LET mid == (lo + hi) \div 2
         IN  IF PowLeq(mid, k, n) THEN IRootIn(n, k, mid, hi) ELSE IRootIn(n, k, lo, mid)
IRoot(n, k) == IRootIn(n, k, 0, n + 1)

RECURSIVE IPow(_, _)
IPow(i, k) == IF k = 0 THEN 1 ELSE i * IPow(i, k - 1)

IsPerfectPower(x, k) ==
    /\ IPow(IRoot(x[1], k), k) = x[1]
    /\ IPow(IRoot(x[2], k), k) = x[2]

MathPowRoot(x, k) ==
    CASE IsPerfectPower(x, k) -> <<IRoot(x[1], k), IRoot(x[2], k)>>

(***************************************************************************)
(* routes/api/lookup-yahoo/+server.ts                                      *)
(***************************************************************************)
\* the turnaround branch divides by start instead of Math.abs(start)
calcCAGR_noAbs(start, end, years) ==
    IF years <= 0 \/ start = Zero THEN Zero
    ELSE IF RatSign(start) < 0 /\ RatSign(end) > 0
    THEN RatDiv(RatMul(RatDiv(RatSub(end, start), start), IntRat(100)), IntRat(years))
    ELSE IF RatSign(start) > 0 /\ RatSign(end) < 0
    THEN RatDiv(RatMul(RatDiv(RatSub(end, start), start), IntRat(100)), IntRat(years))
    ELSE IF RatSign(start) < 0 /\ RatSign(end) < 0
    THEN RatDiv(RatMul(RatDiv(RatSub(RatAbs(start), RatAbs(end)), RatAbs(start)),
                       IntRat(100)), IntRat(years))
    ELSE RatMul(RatSub(MathPowRoot(RatDiv(end, start), years), One), IntRat(100))

calcCAGR(start, end, years) ==
    IF years <= 0 \/ start = Zero THEN Zero
    ELSE IF RatSign(start) < 0 /\ RatSign(end) > 0
    THEN RatDiv(RatMul(RatDiv(RatSub(end, start), RatAbs(start)), IntRat(100)), IntRat(years))
    ELSE IF RatSign(start) > 0 /\ RatSign(end) < 0
    THEN RatDiv(RatMul(RatDiv(RatSub(end, start), start), IntRat(100)), IntRat(years))
    ELSE IF RatSign(start) < 0 /\ RatSign(end) < 0
    THEN RatDiv(RatMul(RatDiv(RatSub(RatAbs(start), RatAbs(end)), RatAbs(start)),
                       IntRat(100)), IntRat(years))
    ELSE RatMul(RatSub(MathPowRoot(RatDiv(end, start), years), One), IntRat(100))

\* the growth is measured from curr back to prev
calcYoY_swapped(prev, curr) ==
    IF curr = Zero THEN Zero
    ELSE RatMul(RatDiv(RatSub(prev, curr), RatAbs(curr)), IntRat(100))

calcYoY(prev, curr) ==
    IF prev = Zero THEN Zero
    ELSE RatMul(RatDiv(RatSub(curr, prev), RatAbs(prev)), IntRat(100))

estimateWACC(beta) ==
    LET rf  == Dec1(45)
        mrp == Dec1(55)
        b   == IF beta = Zero THEN One ELSE beta       \* beta || 1
    IN  RatAdd(rf, RatMul(RatMax(Dec1(5), RatMin(Dec1(25), b)), mrp))

Throw(message) == [kind |-> "throw", message |-> message]
ReturnData(data) == [kind |-> "return", data |-> data]

\* array?.length of an array or undefined
LengthOf(a) == IF a.t = "array" THEN Len(a.items) ELSE 0

\* Math.round(x * 10) / 10
Round1(x) == RoundTo(RealOfRat(x), 10)

\* the accessors rev, opInc, eps and fcf of fetchCompanyData
YahooRev(y) == OrDefault(y.totalRevenue, Zero)
YahooOpInc(y) == OrDefault(y.operatingIncome, Zero)
YahooEps(y) ==
    IF y.netIncome.t = "number" /\ y.netIncome.v # Zero THEN y.netIncome.v ELSE Zero
YahooFcf(c) ==
    RatSub(OrDefault(c.totalCashFromOperatingActivities, Zero),
           RatAbs(OrDefault(c.capitalExpenditures, Zero)))

\* the metrics fetchCompanyData computes from four years of history
\* (lines 75-116): the argument it passes to calculateGrowthIndex
YahooMetrics(income, cashFlow, summary) ==
    LET y0 == income[1]
        y1 == income[2]
        y2 == income[3]
        y3 == income[4]
        rev(y) == YahooRev(y)
        opInc(y) == YahooOpInc(y)
        eps(y) == YahooEps(y)
        fcf(c) == YahooFcf(c)
        revenueCagr == calcCAGR(rev(y3), rev(y0), 3)
        epsCagr == calcCAGR(eps(y3), eps(y0), 3)
        fcfCagr == calcCAGR(fcf(cashFlow[4]), fcf(cashFlow[1]), 3)
        margin0 == IF RatSign(rev(y0)) > 0
                   THEN RatMul(RatDiv(opInc(y0), rev(y0)), IntRat(100)) ELSE Zero
        margin3 == IF RatSign(rev(y3)) > 0
                   THEN RatMul(RatDiv(opInc(y3), rev(y3)), IntRat(100)) ELSE Zero
        marginDelta == RatSub(margin0, margin3)
        annualRevenueGrowth == <<calcYoY(rev(y3), rev(y2)),
                                 calcYoY(rev(y2), rev(y1)),
                                 calcYoY(rev(y1), rev(y0))>>
        beta == OrDefault(summary.beta, One)
        roic == RatMul(OrDefault(summary.returnOnEquity, Dec2(15)), IntRat(100))
        wacc == estimateWACC(beta)
    IN  [revenueCagr |-> revenueCagr, epsCagr |-> epsCagr, fcfCagr |-> fcfCagr,
         marginDelta |-> marginDelta, annualRevenueGrowth |-> annualRevenueGrowth,
         roic |-> roic, wacc |-> wacc]

\* the scoring of the metrics m and the record fetchCompanyData returns
\* (lines 118-211)
YahooResult(ticker, m) ==
    LET gi == calculateGrowthIndex(m, DEFAULT_WEIGHTS)
    IN  [ticker |-> toUpperCase(ticker),
         growthIndex |-> gi.growthIndex,
         baseScore |-> gi.baseScore,
         consistencyFactor |-> gi.consistencyFactor,
         qualityFactor |-> gi.qualityFactor,
         metrics |-> [revenueCagr |-> Round1(m.revenueCagr),
                      epsCagr |-> Round1(m.epsCagr),
                      fcfCagr |-> Round1(m.fcfCagr),
                      marginDelta |-> Round1(m.marginDelta),
                      roic |-> Round1(m.roic),
                      wacc |-> Round1(m.wacc)],
         interpretation |-> interpretGrowthIndex(gi.growthIndex),
         weights |-> [revenue |-> Dec2(30), eps |-> Dec2(25),
                      fcf |-> Dec2(25), margin |-> Dec2(20)]]

\* the part of fetchCompanyData after the history checks: the metrics are
\* computed once and then scored
YahooCompute(ticker, income, cashFlow, summary) ==
    CHOOSE r \in {YahooResult(ticker, m) :
                     m \in {YahooMetrics(income, cashFlow, summary)}} : TRUE

\* fetchCompanyData of the Yahoo route asking for more than four entries
YahooFetchCompanyData_fiveYears(ticker, summary) ==
    LET income == summary.income
        cashFlow == summary.cashFlow
    IN  IF summary.rejects THEN Throw(summary.error)
        ELSE IF LengthOf(income) = 0 THEN Throw(<<"No income data for ">> \o ticker)
        ELSE IF LengthOf(income) <= 4
        THEN Throw(<<"Need 4yr data for ">> \o ticker
                      \o <<", got ", ToString(LengthOf(income))>>)
        ELSE IF LengthOf(cashFlow) = 0 \/ LengthOf(cashFlow) <= 4
        THEN Throw(<<"Need 4yr cash flow for ">> \o ticker)
        ELSE ReturnData(YahooCompute(ticker, income.items, cashFlow.items, summary))

\* fetchCompanyData(ticker) of the Yahoo route, given what quoteSummary does:
\* `summary` is [rejects, error, income, cashFlow, beta, returnOnEquity].
\* The company, market and chart fields of the result are left out.
YahooFetchCompanyData(ticker, summary) ==
    LET income == summary.income
        cashFlow == summary.cashFlow
    IN  IF summary.rejects THEN Throw(summary.error)
        ELSE IF LengthOf(income) = 0 THEN Throw(<<"No income data for ">> \o ticker)
        ELSE IF LengthOf(income) < 4
        THEN Throw(<<"Need 4yr data for ">> \o ticker
                      \o <<", got ", ToString(LengthOf(income))>>)
        ELSE IF LengthOf(cashFlow) = 0 \/ LengthOf(cashFlow) < 4
        THEN Throw(<<"Need 4yr cash flow for ">> \o ticker)
        ELSE ReturnData(YahooCompute(ticker, income.items, cashFlow.items, summary))

(***************************************************************************)
(* The Alpha Vantage lookup route (appended to routes/config/+page.svelte) *)
(***************************************************************************)
AVcalcCAGR(start, end, years) ==
    IF years <= 0 \/ start = Zero THEN Zero
    ELSE IF RatSign(start) < 0 /\ RatSign(end) > 0
    THEN RatDiv(RatMul(RatDiv(RatSub(end, start), RatAbs(start)), IntRat(100)), IntRat(years))
    ELSE IF RatSign(start) > 0 /\ RatSign(end) < 0
    THEN RatDiv(RatMul(RatDiv(RatSub(end, start), start), IntRat(100)), IntRat(years))
    ELSE IF RatSign(start) < 0 /\ RatSign(end) < 0
    THEN RatDiv(RatMul(RatDiv(RatSub(RatAbs(start), RatAbs(end)), RatAbs(start)),
                       IntRat(100)), IntRat(years))
    ELSE RatMul(RatSub(MathPowRoot(RatDiv(end, start), years), One), IntRat(100))

AVcalcYoY(prev, curr) ==
    IF prev = Zero THEN Zero
    ELSE RatMul(RatDiv(RatSub(curr, prev), RatAbs(prev)), IntRat(100))

AVestimateWACC(beta) ==
    LET rf  == Dec1(45)
        mrp == Dec1(55)
        b   == IF beta = Zero THEN One ELSE beta       \* beta || 1
    IN  RatAdd(rf, RatMul(RatMax(Dec1(5), RatMin(Dec1(25), b)), mrp))

\* fetchAV(fn, ticker), given the key in currentApiKey at the call and the
\* provider's HTTP response [rejects, error, ok, status, body]; body holds
\* errorMessage and note (undefined when absent) and the payload
fetchAV(key, res) ==
    IF key = "" THEN Throw(<<"Alpha Vantage API key not provided">>)
    ELSE IF res.rejects THEN Throw(res.error)
    ELSE IF ~res.ok THEN Throw(<<"Alpha Vantage ", ToString(res.status)>>)
    ELSE IF res.body.errorMessage.t = "string" /\ res.body.errorMessage.s # <<>>
    THEN Throw(res.body.errorMessage.s)
    ELSE IF res.body.note THEN Throw(<<"Rate limit - wait 60s">>)
    ELSE ReturnData(res.body)

\* the accessors rev, opInc, eps and fcf of fetchCompanyData
AVRev(y) == OrDefault(parseFloat(y.totalRevenue), Zero)
AVOpInc(y) == OrDefault(parseFloat(y.operatingIncome), Zero)
AVEps(y) == OrDefault(parseFloat(y.reportedEPS), Zero)
AVFcf(c) ==
    RatSub(OrDefault(parseFloat(c.operatingCashflow), Zero),
           RatAbs(OrDefault(parseFloat(c.capitalExpenditures), Zero)))

\* the return on equity is kept as a fraction
AVRoic_fraction(x) ==
    LET v == parseFloat(x)
    IN  IF v.t = "number" /\ v.v # Zero THEN v.v ELSE IntRat(15)

\* parseFloat(x) * 100 || 15
AVRoic(x) ==
    LET v == parseFloat(x)
    IN  IF v.t = "number" /\ v.v # Zero THEN RatMul(v.v, IntRat(100)) ELSE IntRat(15)

\* the metrics fetchCompanyData computes from four years of history
\* (lines 1246-1275): the argument it passes to calculateGrowthIndex
AVMetrics(income, cashFlow, overview) ==
    LET y0 == income[1]
        y1 == income[2]
        y2 == income[3]
        y3 == income[4]
        rev(y) == AVRev(y)
        opInc(y) == AVOpInc(y)
        eps(y) == AVEps(y)
        fcf(c) == AVFcf(c)
        revenueCagr == AVcalcCAGR(rev(y3), rev(y0), 3)
        epsCagr == AVcalcCAGR(eps(y3), eps(y0), 3)
        fcfCagr == AVcalcCAGR(fcf(cashFlow[4]), fcf(cashFlow[1]), 3)
        margin0 == IF RatSign(rev(y0)) > 0
                   THEN RatMul(RatDiv(opInc(y0), rev(y0)), IntRat(100)) ELSE Zero
        margin3 == IF RatSign(rev(y3)) > 0
                   THEN RatMul(RatDiv(opInc(y3), rev(y3)), IntRat(100)) ELSE Zero
        marginDelta == RatSub(margin0, margin3)
        annualRevenueGrowth == <<AVcalcYoY(rev(y3), rev(y2)),
                                 AVcalcYoY(rev(y2), rev(y1)),
                                 AVcalcYoY(rev(y1), rev(y0))>>
        roic == AVRoic(overview.ReturnOnEquityTTM)
        wacc == AVestimateWACC(OrDefault(parseFloat(overview.Beta), One))
    IN  [revenueCagr |-> revenueCagr, epsCagr |-> epsCagr, fcfCagr |-> fcfCagr,
         marginDelta |-> marginDelta, annualRevenueGrowth |-> annualRevenueGrowth,
         roic |-> roic, wacc |-> wacc]

\* the scoring of the metrics m and the record fetchCompanyData returns
\* (lines 1277-1312)
AVResult(ticker, m) ==
    LET gi == calculateGrowthIndex(m, DEFAULT_WEIGHTS)
    IN  [ticker |-> toUpperCase(ticker),
         growthIndex |-> gi.growthIndex,
         baseScore |-> gi.baseScore,
         consistencyFactor |-> gi.consistencyFactor,
         qualityFactor |-> gi.qualityFactor,
         metrics |-> [revenueCagr |-> Round1(m.revenueCagr),
                      epsCagr |-> Round1(m.epsCagr),
                      fcfCagr |-> Round1(m.fcfCagr),
                      marginDelta |-> Round1(m.marginDelta),
                      roic |-> Round1(m.roic),
                      wacc |-> Round1(m.wacc)],
         interpretation |-> interpretGrowthIndex(gi.growthIndex)]

\* the part of fetchCompanyData after the history checks: the metrics are
\* computed once and then scored
AVCompute(ticker, income, cashFlow, overview) ==
    CHOOSE r \in {AVResult(ticker, m) :
                     m \in {AVMetrics(income, cashFlow, overview)}} : TRUE

\* the history checks and the computation, once the three fetches returned
AVAfterFetches(ticker, incomeData, cashFlowData, overview) ==
    LET income == incomeData.annualReports
        cashFlow == cashFlowData.annualReports
    IN  IF LengthOf(income) = 0 THEN Throw(<<"No income data for ">> \o ticker)
        ELSE IF LengthOf(income) < 4
        THEN Throw(<<"Need 4yr data for ">> \o ticker
                      \o <<", got ", ToString(LengthOf(income))>>)
        ELSE IF LengthOf(cashFlow) = 0 \/ LengthOf(cashFlow) < 4
        THEN Throw(<<"Need 4yr cash flow for ">> \o ticker)
        ELSE ReturnData(AVCompute(ticker, income.items, cashFlow.items, overview))

\* fetchCompanyData(ticker) of the Alpha Vantage route run to its end with
\* the key `key` in currentApiKey throughout; `feed` holds the provider's
\* responses to the INCOME_STATEMENT, CASH_FLOW and OVERVIEW fetches
AVFetchCompanyData(key, ticker, feed) ==
    LET incomeData == fetchAV(key, feed.INCOME_STATEMENT)
        cashFlowData == fetchAV(key, feed.CASH_FLOW)
        overview == fetchAV(key, feed.OVERVIEW)
    IN  IF incomeData.kind = "throw" THEN incomeData
        ELSE IF cashFlowData.kind = "throw" THEN cashFlowData
        ELSE IF overview.kind = "throw" THEN overview
        ELSE AVAfterFetches(ticker, incomeData.data, cashFlowData.data, overview.data)

(***************************************************************************)
(* Idle values of the parts of the state a specification does not use      *)
(***************************************************************************)
NoCall == [fn |-> "none", returned |-> TRUE]
NoRequest == [tickers |-> <<>>, apiKey |-> ""]
NoResponse == [status |-> 0]

CalcIdle == call = NoCall
BatchIdle ==
    /\ provider = "none"
    /\ request = NoRequest
    /\ hpc = "idle"
    /\ idx = 0
    /\ results = <<>>
    /\ response = NoResponse
    /\ fetched = <<>>
ConcIdle ==
    /\ reqs = <<>>
    /\ fetchLog = {}
RateIdle ==
    /\ now = 0
    /\ wake = 0
    /\ sentAt = <<>>
PageFresh ==
    /\ inputValue = <<>>
    /\ selectedTickers = <<>>
    /\ suggestions = <<>>
    /\ showSuggestions = FALSE
    /\ highlightedIndex = -1
    /\ isLoading = FALSE
    /\ isSearching = FALSE
    /\ error = <<>>
    /\ pageResults = <<>>
    /\ selectedCompany = JSNull
    /\ searchTimeout = FALSE
    /\ lookups = <<>>
    /\ queries = <<>>
    /\ history = [events |-> 0, outcome |-> "none",
                  staleResults |-> FALSE, staleSuggestions |-> FALSE]

(***************************************************************************)
(* SpecCalc: the engine's functions applied to inputs from bounded sets    *)
(***************************************************************************)
QRange == 6
GRange == 3
MaxSeriesLen == 3
MaxScore == 450

\* roic and wacc: -15.0 .. 15.0 in steps of 2.5
QualityVals == {Dec1(25 * k) : k \in -QRange..QRange}
QfBounds == {<<DefaultMinQf, DefaultMaxQf>>, <<Dec1(5), Dec1(9)>>}

\* annual growth rates: -5.0 .. 15.0 in steps of 5.0, series of length 0 .. MaxSeriesLen
GrowthVals == {IntRat(5 * k) : k \in -1..GRange}
GrowthSeries == UNION {[1..n -> GrowthVals] : n \in 0..MaxSeriesLen}
CfBounds == {<<DefaultMinCf, DefaultMaxCf>>, <<Dec1(6), Dec1(9)>>}

\* scores: -45.0 .. 45.0 in steps of 0.1, and the values just below each boundary
ScoreVals == {Dec1(n) : n \in -MaxScore..MaxScore}
                 \cup {Dec2(499), Dec2(1499), Dec2(2499), Dec2(3999)}

DisplayWeights == [revenue |-> Dec2(30), eps |-> Dec2(25), fcf |-> Dec2(25), margin |-> Dec2(20)]
WeightsSet == {DEFAULT_WEIGHTS, DisplayWeights}

MetricsSet ==
    {EXAMPLE_COMPANIES.META, EXAMPLE_COMPANIES.APPLE, EXAMPLE_COMPANIES.NVIDIA}
    \cup
    [revenueCagr : {Dec1(188), Dec1(-4), Dec1(1)},
     epsCagr : {Dec1(667), Dec1(-2)},
     fcfCagr : {Dec1(675), Dec1(-12)},
     marginDelta : {Dec1(83), Dec1(3)},
     annualRevenueGrowth : {<<Dec1(157), Dec1(219), Dec1(213)>>,
                            <<Dec1(-28), Dec1(20), Dec1(64)>>,
                            <<IntRat(10), IntRat(10), IntRat(10)>>,
                            <<IntRat(10), IntRat(12), IntRat(10)>>},
     roic : {IntRat(34), IntRat(5), IntRat(-5)},
     wacc : {Dec1(127), IntRat(10), Zero}]

\* the applications the specification explores, before they are evaluated
QualityCalls ==
    {[fn |-> "calculateQualityFactor", roic |-> roic, wacc |-> wacc,
      minQf |-> b[1], maxQf |-> b[2], returned |-> FALSE] :
        roic \in QualityVals, wacc \in QualityVals, b \in QfBounds}
ConsistencyCalls ==
    {[fn |-> "calculateConsistencyFactor", annualGrowthRates |-> rates,
      minCf |-> b[1], maxCf |-> b[2], returned |-> FALSE] :
        rates \in GrowthSeries, b \in CfBounds}
GrowthIndexCalls ==
    {[fn |-> "calculateGrowthIndex", metrics |-> metrics, weights |-> weights,
      returned |-> FALSE] :
        metrics \in MetricsSet, weights \in WeightsSet}
InterpretCalls ==
    {[fn |-> "interpretGrowthIndex", gi |-> gi, returned |-> FALSE] : gi \in ScoreVals}

\* start and end values of calcCAGR: cubes and squares up to CubeRange, with
\* -100, -50, 50 and 100; the years run over -1 .. 3.  A call that reaches
\* Math.pow is made only where the root is rational.
CubeRange == 3
CagrVals ==
    {IntRat(v) : v \in {-100, -50, 50, 100}
                       \cup {sgn * k * k * k : sgn \in {-1, 1}, k \in 0..CubeRange}
                       \cup {k * k : k \in 0..CubeRange}}
CagrYears == -1..3
ReachesPow(start, end, years) ==
    /\ years > 0 /\ start # Zero
    /\ ~(RatSign(start) < 0 /\ RatSign(end) > 0)
    /\ ~(RatSign(start) > 0 /\ RatSign(end) < 0)
    /\ ~(RatSign(start) < 0 /\ RatSign(end) < 0)
CagrCalls ==
    {c \in [fn : {"calcCAGR"}, route : {"yahoo", "alpha-vantage"}, start : CagrVals,
            end : CagrVals, years : CagrYears, returned : {FALSE}] :
        ReachesPow(c.start, c.end, c.years)
            => IsPerfectPower(RatDiv(c.end, c.start), c.years)}

\* the companies compareCompanies is given: the three examples and a fourth
\* company with the metrics of the first, in lists of up to MaxCompanies
MaxCompanies == 3
CompanyPool ==
    {[name |-> "Meta Platforms", ticker |-> "META", metrics |-> EXAMPLE_COMPANIES.META],
     [name |-> "Apple", ticker |-> "AAPL", metrics |-> EXAMPLE_COMPANIES.APPLE],
     [name |-> "NVIDIA", ticker |-> "NVDA", metrics |-> EXAMPLE_COMPANIES.NVIDIA],
     [name |-> "Twin", ticker |-> "TWIN", metrics |-> EXAMPLE_COMPANIES.META]}
CompanyLists == UNION {[1..n -> CompanyPool] : n \in 0..MaxCompanies}
CompareCalls ==
    {[fn |-> "compareCompanies", companies |-> cs, weights |-> w, returned |-> FALSE] :
        cs \in CompanyLists, w \in WeightsSet}

CalcInit ==
    /\ call \in QualityCalls \cup ConsistencyCalls \cup GrowthIndexCalls \cup InterpretCalls
                \cup CagrCalls \cup CompareCalls
    /\ BatchIdle /\ ConcIdle /\ RateIdle /\ PageFresh /\ currentApiKey = ""

Pending(fn) == call.fn = fn /\ ~call.returned
Returned(fn) == call.fn = fn /\ call.returned

\* the call with its return value added
Return(value) == [x \in DOMAIN call \cup {"ret"} |->
                    IF x = "ret" THEN value ELSE IF x = "returned" THEN TRUE ELSE call[x]]

CallQualityFactor ==
    /\ Pending("calculateQualityFactor")
    /\ call' = Return(calculateQualityFactor(call.roic, call.wacc, call.minQf, call.maxQf))
    /\ UNCHANGED calcOthers

CallConsistencyFactor ==
    /\ Pending("calculateConsistencyFactor")
    /\ call' = Return(calculateConsistencyFactor(call.annualGrowthRates, call.minCf, call.maxCf))
    /\ UNCHANGED calcOthers

CallGrowthIndex ==
    /\ Pending("calculateGrowthIndex")
    /\ call' = Return(calculateGrowthIndex(call.metrics, call.weights))
    /\ UNCHANGED calcOthers

CallInterpret ==
    /\ Pending("interpretGrowthIndex")
    /\ call' = Return(interpretGrowthIndex(call.gi))
    /\ UNCHANGED calcOthers

CallCalcCAGR ==
    /\ Pending("calcCAGR") /\ call.route = "yahoo"
    /\ call' = Return(calcCAGR(call.start, call.end, call.years))
    /\ UNCHANGED calcOthers

CallAVCalcCAGR ==
    /\ Pending("calcCAGR") /\ call.route = "alpha-vantage"
    /\ call' = Return(AVcalcCAGR(call.start, call.end, call.years))
    /\ UNCHANGED calcOthers

\* the call's `companies` is the caller's array as the call found it; the
\* array as the call leaves it is kept in `after`
CallCompareCompanies ==
    /\ Pending("compareCompanies")
    /\ \E out \in {compareCompanies(call.companies, call.weights)} :
           call' = [x \in DOMAIN call \cup {"ret", "after"} |->
                       IF x = "ret" THEN out.results
                       ELSE IF x = "after" THEN out.companies
                       ELSE IF x = "returned" THEN TRUE ELSE call[x]]
    /\ UNCHANGED calcOthers

CalcNext ==
    \/ CallQualityFactor
    \/ CallConsistencyFactor
    \/ CallGrowthIndex
    \/ CallInterpret
    \/ CallCalcCAGR
    \/ CallAVCalcCAGR
    \/ CallCompareCompanies

SpecCalc == CalcInit /\ [][CalcNext]_vars

(***************************************************************************)
(* Properties of the engine (checked under SpecCalc)                       *)
(***************************************************************************)
DefaultQfCall ==
    Returned("calculateQualityFactor")
        /\ call.minQf = DefaultMinQf /\ call.maxQf = DefaultMaxQf
DefaultCfCall ==
    Returned("calculateConsistencyFactor")
        /\ call.minCf = DefaultMinCf /\ call.maxCf = DefaultMaxCf

\* C1: with the default bounds calculateQualityFactor(roic, wacc) lies in
\* [0.7, 1.0] for every roic and wacc, negative roic included.
C1_QualityFactorInRange ==
    DefaultQfCall => RatLeq(Dec1(7), call.ret) /\ RatLeq(call.ret, One)

\* C2: with the default bounds calculateConsistencyFactor lies in [0.5, 1.0]
\* for every series, of any length and any signs.
C2_ConsistencyFactorInRange ==
    DefaultCfCall => RealGeqRat(call.ret, Dec1(5)) /\ RealLeqRat(call.ret, One)

\* a series of three rates with a positive mean whose 1 - stdev/mean is below 0.5
C2_Witness ==
    /\ DefaultCfCall
    /\ Len(call.annualGrowthRates) = 3
    /\ RatLess(Zero, mean(call.annualGrowthRates))
    /\ RealLessRat(calculateConsistencyFactor_unclamped(call.annualGrowthRates,
                                                        call.minCf, call.maxCf), Dec1(5))
    /\ call.ret = RealOfRat(Dec1(5))

\* v is x rounded to a multiple of 1/scale: v * scale is the integer k with
\* k - 1/2 <= x * scale < k + 1/2
IsRounded(v, x, scale) ==
    LET k == RatMul(v, IntRat(scale))
    IN  /\ k[2] = 1
        /\ RealGeqRat(x, Rat(2 * k[1] - 1, 2 * scale))
        /\ RealLessRat(x, Rat(2 * k[1] + 1, 2 * scale))

\* the weighted sum B of the four metrics, unrounded
WeightedSum(m, w) ==
    RatAdd(RatAdd(RatMul(w.revenue, m.revenueCagr), RatMul(w.eps, m.epsCagr)),
           RatAdd(RatMul(w.fcf, m.fcfCagr), RatMul(w.margin, m.marginDelta)))

\* C3: baseScore is the weighted sum B rounded to 2 decimals and growthIndex
\* is B * Cf * Qf rounded to 2 decimals, B, Cf and Qf being the unrounded
\* weighted sum, consistency factor and quality factor: no rounded value
\* feeds another output.
C3_RoundedOnce ==
    Returned("calculateGrowthIndex") =>
        LET m  == call.metrics
            B  == WeightedSum(m, call.weights)
            Cf == calculateConsistencyFactor(m.annualRevenueGrowth, Dec1(5), One)
            Qf == calculateQualityFactor(m.roic, m.wacc, Dec1(7), One)
        IN  /\ IsRounded(call.ret.baseScore, RealOfRat(B), 100)
            /\ IsRounded(call.ret.growthIndex, RealScale(RatMul(B, Qf), Cf), 100)
            /\ IsRounded(call.ret.consistencyFactor, Cf, 1000)
            /\ IsRounded(call.ret.qualityFactor, RealOfRat(Qf), 1000)

\* a result whose base score and consistency factor both lose digits in rounding
C3_Witness ==
    /\ Returned("calculateGrowthIndex")
    /\ call.ret.baseScore # WeightedSum(call.metrics, call.weights)
    /\ ~IsRational(calculateConsistencyFactor(call.metrics.annualRevenueGrowth, Dec1(5), One))
    /\ call.ret.growthIndex #
         RatMul(RatMul(call.ret.baseScore, call.ret.consistencyFactor), call.ret.qualityFactor)

Tier(label) ==
    CASE label = "Exceptional Growth" -> 4
      [] label = "Strong Growth"      -> 3
      [] label = "Moderate Growth"    -> 2
      [] label = "Low Growth"         -> 1
      [] label = "Declining/Stagnant" -> 0

MaxYears == 5

JSArray(items) == [t |-> "array", items |-> items]

\* the decimal text of an integer, as JSON from Alpha Vantage carries it
RECURSIVE NatStr(_)
NatStr(n) == IF n < 10 THEN <<Digits[n + 1]>> ELSE NatStr(n \div 10) \o <<Digits[(n % 10) + 1]>>
NumStr(n) == JSStr(IF n < 0 THEN <<"-">> \o NatStr(-n) ELSE NatStr(n))

\* four fiscal years and an older fifth one, newest first
\* <<revenue, operating income, net income, operating cash flow, capital expenditures>>
BaseYears == << <<8000, 2000, 1000, 1000, -488>>,
                <<5000,  800,  500,  400, -100>>,
                <<2000,  300,  250,  150,  -50>>,
                <<1000,  100,  125,  125,   61>>,
                << 500,   40,   60,   50,   10>> >>

YahooIncomeBase ==
    [i \in 1..Len(BaseYears) |->
        [totalRevenue |-> JSNum(IntRat(BaseYears[i][1])),
         operatingIncome |-> JSNum(IntRat(BaseYears[i][2])),
         netIncome |-> JSNum(IntRat(BaseYears[i][3]))]]
YahooCashBase ==
    [i \in 1..Len(BaseYears) |->
        [totalCashFromOperatingActivities |-> JSNum(IntRat(BaseYears[i][4])),
         capitalExpenditures |-> JSNum(IntRat(BaseYears[i][5]))]]
AVIncomeBase ==
    [i \in 1..Len(BaseYears) |->
        [totalRevenue |-> NumStr(BaseYears[i][1]),
         operatingIncome |-> NumStr(BaseYears[i][2]),
         netIncome |-> NumStr(BaseYears[i][3]),
         reportedEPS |-> JSUndefined]]
\* the income records with per-share earnings 4, 2, 1, 0.5 and 0.25
EpsYears == <<<<"4">>, <<"2">>, <<"1">>, <<"0", ".", "5">>, <<"0", ".", "2", "5">>>>
AVIncomeEps ==
    [i \in 1..Len(BaseYears) |-> [AVIncomeBase[i] EXCEPT !.reportedEPS = JSStr(EpsYears[i])]]
AVCashBase ==
    [i \in 1..Len(BaseYears) |->
        [operatingCashflow |-> NumStr(BaseYears[i][4]),
         capitalExpenditures |-> NumStr(BaseYears[i][5])]]

Take(base, n) == SubSeq(base, 1, IF n < Len(base) THEN n ELSE Len(base))
\* undefined, or the newest n entries for n in 0 .. MaxYears
Histories(base) == {JSUndefined} \cup {JSArray(Take(base, n)) : n \in 0..MaxYears}
LongHistories(base) == {JSArray(Take(base, n)) : n \in 4..MaxYears}

\* values a numeric field takes besides its base value
YahooOddValues == {JSUndefined, JSNull, JSNaN, JSNum(Zero), JSNum(IntRat(-1000))}
AVOddValues == {JSUndefined, JSNull, JSStr(<<"N", "o", "n", "e">>), JSStr(<<>>),
                NumStr(0), NumStr(-1000)}

WithField(a, i, f, v) == JSArray([a.items EXCEPT ![i] = [@ EXCEPT ![f] = v]])

YahooSummary(income, cashFlow, beta, roe) ==
    [rejects |-> FALSE, error |-> <<>>, income |-> income, cashFlow |-> cashFlow,
     beta |-> beta, returnOnEquity |-> roe]

YahooSummaries ==
    {[rejects |-> TRUE, error |-> <<"Quote not found">>, income |-> JSUndefined,
      cashFlow |-> JSUndefined, beta |-> JSUndefined, returnOnEquity |-> JSUndefined]}
    \cup {YahooSummary(a, c, JSNum(Dec1(12)), JSNum(Dec2(30))) :
            a \in Histories(YahooIncomeBase), c \in Histories(YahooCashBase)}
    \cup {YahooSummary(WithField(a, i, f, v), c, JSNum(Dec1(12)), JSNum(Dec2(30))) :
            a \in LongHistories(YahooIncomeBase), c \in LongHistories(YahooCashBase),
            i \in 1..4, f \in {"totalRevenue", "operatingIncome", "netIncome"},
            v \in YahooOddValues}
    \cup {YahooSummary(a, WithField(c, i, f, v), JSNum(Dec1(12)), JSNum(Dec2(30))) :
            a \in LongHistories(YahooIncomeBase), c \in LongHistories(YahooCashBase),
            i \in {1, 4}, f \in {"totalCashFromOperatingActivities", "capitalExpenditures"},
            v \in YahooOddValues}
    \cup {YahooSummary(JSArray(Take(YahooIncomeBase, 4)), JSArray(Take(YahooCashBase, 4)), b, r) :
            b \in {JSUndefined, JSNum(Zero), JSNum(Dec1(3)), JSNum(IntRat(3)),
                   JSNum(IntRat(-1))},
            r \in {JSUndefined, JSNull, JSNum(Zero), JSNum(Dec2(-10)), JSNum(Dec2(5)),
                   JSNum(Dec1(-5)), JSNum(Rat(-25, 10000)), JSNum(Rat(25, 10000))}}

AVOk(body) == [rejects |-> FALSE, error |-> <<>>, ok |-> TRUE, status |-> 200, body |-> body]
AVStatement(reports) ==
    AVOk([errorMessage |-> JSUndefined, note |-> FALSE, annualReports |-> reports])
AVOverview(beta, roe) ==
    AVOk([errorMessage |-> JSUndefined, note |-> FALSE, Beta |-> beta,
          ReturnOnEquityTTM |-> roe])
AVFailures ==
    {[rejects |-> TRUE, error |-> <<"fetch failed">>, ok |-> FALSE, status |-> 0,
      body |-> [errorMessage |-> JSUndefined, note |-> FALSE]],
     [rejects |-> FALSE, error |-> <<>>, ok |-> FALSE, status |-> 500,
      body |-> [errorMessage |-> JSUndefined, note |-> FALSE]],
     AVOk([errorMessage |-> JSStr(<<"Invalid API call">>), note |-> FALSE]),
     AVOk([errorMessage |-> JSUndefined, note |-> TRUE])}

AVFeed(income, cashFlow, overview) ==
    [INCOME_STATEMENT |-> income, CASH_FLOW |-> cashFlow, OVERVIEW |-> overview]
AVGoodIncome == AVStatement(JSArray(Take(AVIncomeBase, 4)))
AVGoodCash == AVStatement(JSArray(Take(AVCashBase, 4)))
AVGoodOverview == AVOverview(JSStr(<<"1", ".", "2">>), JSStr(<<"0", ".", "3">>))

AVFeeds ==
    {AVFeed(x, AVGoodCash, AVGoodOverview) : x \in AVFailures}
    \cup {AVFeed(AVGoodIncome, x, AVGoodOverview) : x \in AVFailures}
    \cup {AVFeed(AVGoodIncome, AVGoodCash, x) : x \in AVFailures}
    \cup {AVFeed(AVStatement(a), AVStatement(c), AVGoodOverview) :
            a \in Histories(AVIncomeBase), c \in Histories(AVCashBase)}
    \cup {AVFeed(AVStatement(WithField(a, i, f, v)), AVStatement(c), AVGoodOverview) :
            a \in LongHistories(AVIncomeBase), c \in LongHistories(AVCashBase),
            i \in 1..4, f \in {"totalRevenue", "operatingIncome", "netIncome", "reportedEPS"},
            v \in AVOddValues}
    \cup {AVFeed(AVStatement(a), AVStatement(WithField(c, i, f, v)), AVGoodOverview) :
            a \in LongHistories(AVIncomeBase), c \in LongHistories(AVCashBase),
            i \in {1, 4}, f \in {"operatingCashflow", "capitalExpenditures"},
            v \in AVOddValues}
    \cup {AVFeed(AVGoodIncome, AVGoodCash, AVOverview(b, r)) :
            b \in {JSUndefined, JSStr(<<"N", "o", "n", "e">>), NumStr(0), NumStr(3),
                   NumStr(-1)},
            r \in {JSUndefined, JSStr(<<"N", "o", "n", "e">>), NumStr(0),
                   JSStr(<<"-", "0", ".", "1">>), JSStr(<<"0", ".", "0", "5">>),
                   JSStr(<<"-", "0", ".", "5">>),
                   JSStr(<<"-", "0", ".", "0", "0", "2", "5">>),
                   JSStr(<<"0", ".", "0", "0", "2", "5">>)}}
    \cup {AVFeed(AVStatement(JSArray(Take(AVIncomeEps, 4))), AVGoodCash, AVGoodOverview)}

PipeTickers == {<<"A", "B">>}

YahooFetchCalls ==
    {[fn |-> "fetchCompanyData", provider |-> "yahoo", ticker |-> t, payload |-> p,
      returned |-> FALSE] : t \in PipeTickers, p \in YahooSummaries}
AVFetchCalls ==
    {[fn |-> "fetchCompanyData", provider |-> "alpha-vantage", ticker |-> t, payload |-> p,
      returned |-> FALSE] : t \in PipeTickers, p \in AVFeeds}

PipeInit ==
    /\ call \in YahooFetchCalls \cup AVFetchCalls
    /\ BatchIdle /\ ConcIdle /\ RateIdle /\ PageFresh /\ currentApiKey = "K1"

CallYahooFetchCompanyData ==
    /\ Pending("fetchCompanyData") /\ call.provider = "yahoo"
    /\ call' = Return(YahooFetchCompanyData(call.ticker, call.payload))
    /\ UNCHANGED calcOthers

CallAVFetchCompanyData ==
    /\ Pending("fetchCompanyData") /\ call.provider = "alpha-vantage"
    /\ call' = Return(AVFetchCompanyData(currentApiKey, call.ticker, call.payload))
    /\ UNCHANGED calcOthers

PipeNext ==
    \/ CallYahooFetchCompanyData
    \/ CallAVFetchCompanyData

SpecPipe == PipeInit /\ [][PipeNext]_vars

(***************************************************************************)
(* Properties of fetchCompanyData, checked under SpecPipe                  *)
(***************************************************************************)
\* whether the provider delivered the body of one Alpha Vantage function
AVDelivered(res) ==
    ~res.rejects /\ res.ok /\ res.body.errorMessage = JSUndefined /\ ~res.body.note
AVReports(res) ==
    IF AVDelivered(res) /\ "annualReports" \in DOMAIN res.body
    THEN res.body.annualReports ELSE JSUndefined

\* the payload of the call: whether it was delivered, and its two histories
PayloadDelivered ==
    IF call.provider = "yahoo" THEN ~call.payload.rejects
    ELSE /\ AVDelivered(call.payload.INCOME_STATEMENT)
         /\ AVDelivered(call.payload.CASH_FLOW)
         /\ AVDelivered(call.payload.OVERVIEW)
PayloadIncome ==
    IF call.provider = "yahoo" THEN call.payload.income
    ELSE AVReports(call.payload.INCOME_STATEMENT)
PayloadCashFlow ==
    IF call.provider = "yahoo" THEN call.payload.cashFlow
    ELSE AVReports(call.payload.CASH_FLOW)

\* a field that carries a number: a number for Yahoo, decimal text for Alpha Vantage
IsNumericField(v) ==
    \/ v.t = "number"
    \/ /\ v.t = "string" /\ v.s # <<>>
       /\ \A i \in 1..Len(v.s) : IsDigit(v.s[i]) \/ v.s[i] \in {"-", "."}
ZeroField == IF call.provider = "yahoo" THEN JSNum(Zero) ELSE NumStr(0)

\* the history with every field that carries no number replaced by zero
Zeroed(a) ==
    JSArray([i \in 1..Len(a.items) |->
                [f \in DOMAIN a.items[i] |->
                    IF IsNumericField(a.items[i][f]) THEN a.items[i][f] ELSE ZeroField]])
HasOddField(a) ==
    \E i \in 1..4 : \E f \in DOMAIN a.items[i] : ~IsNumericField(a.items[i][f])

ZeroedOutcome ==
    IF call.provider = "yahoo"
    THEN YahooFetchCompanyData(call.ticker,
            [call.payload EXCEPT !.income = Zeroed(@), !.cashFlow = Zeroed(@)])
    ELSE AVFetchCompanyData(currentApiKey, call.ticker,
            [call.payload EXCEPT !.INCOME_STATEMENT.body.annualReports = Zeroed(@),
                                 !.CASH_FLOW.body.annualReports = Zeroed(@)])

\* C10: a payload with fewer than 4 income entries or fewer than 4 cash-flow
\* entries makes fetchCompanyData throw, so no growth index is computed for
\* the ticker; a delivered payload with at least 4 of both makes it return,
\* and it returns what it returns when every missing, null or non-numeric
\* field of the two histories holds zero instead.
C10_HistoryCheckAndCoercion ==
    Returned("fetchCompanyData") =>
        /\ (LengthOf(PayloadIncome) < 4 \/ LengthOf(PayloadCashFlow) < 4)
              => call.ret.kind = "throw" /\ "data" \notin DOMAIN call.ret
        /\ (PayloadDelivered /\ LengthOf(PayloadIncome) >= 4 /\ LengthOf(PayloadCashFlow) >= 4)
              => call.ret.kind = "return" /\ call.ret = ZeroedOutcome

C10_Witness ==
    /\ Returned("fetchCompanyData")
    /\ call.provider = "alpha-vantage"
    /\ PayloadDelivered
    /\ LengthOf(PayloadIncome) >= 4 /\ LengthOf(PayloadCashFlow) >= 4
    /\ HasOddField(PayloadIncome)
    /\ call.ret.kind = "return"

\* a call that computed a result, and the result
Computed == Returned("fetchCompanyData") /\ call.ret.kind = "return"
Yahoo == call.provider = "yahoo"

\* the metrics the call passed to calculateGrowthIndex
PassedMetrics ==
    IF Yahoo
    THEN YahooMetrics(call.payload.income.items, call.payload.cashFlow.items, call.payload)
    ELSE AVMetrics(call.payload.INCOME_STATEMENT.body.annualReports.items,
                   call.payload.CASH_FLOW.body.annualReports.items,
                   call.payload.OVERVIEW.body)

\* the six metrics of the response with the growth series the call passed
ReportedMetrics ==
    LET m == call.ret.data.metrics
    IN  [revenueCagr |-> m.revenueCagr, epsCagr |-> m.epsCagr, fcfCagr |-> m.fcfCagr,
         marginDelta |-> m.marginDelta,
         annualRevenueGrowth |-> PassedMetrics.annualRevenueGrowth,
         roic |-> m.roic, wacc |-> m.wacc]

\* C11: in each pipeline the reported growthIndex and baseScore are
\* calculateGrowthIndex applied to the one-decimal-rounded revenueCagr,
\* epsCagr, fcfCagr, marginDelta, roic and wacc that the response reports.
C11_ScoreFromRoundedMetrics ==
    Computed =>
        LET gi == calculateGrowthIndex(ReportedMetrics, DEFAULT_WEIGHTS)
        IN  /\ call.ret.data.growthIndex = gi.growthIndex
            /\ call.ret.data.baseScore = gi.baseScore

\* C14: the weights reported with a company result (revenue 0.30, eps 0.25,
\* fcf 0.25, margin 0.20) are the weights its baseScore and growthIndex were
\* computed with: baseScore is the sum of reported weight times metric over
\* the four components, rounded to two decimals.
C14_ReportedWeightsUsed ==
    (Computed /\ "weights" \in DOMAIN call.ret.data) =>
        LET d  == call.ret.data
            gi == calculateGrowthIndex(PassedMetrics, d.weights)
        IN  /\ d.weights = [revenue |-> Dec2(30), eps |-> Dec2(25),
                            fcf |-> Dec2(25), margin |-> Dec2(20)]
            /\ IsRounded(d.baseScore, RealOfRat(WeightedSum(PassedMetrics, d.weights)), 100)
            /\ d.baseScore = gi.baseScore
            /\ d.growthIndex = gi.growthIndex

\* the earnings of one income record: the reported per-share earnings when
\* the record carries them, the net income otherwise
HasField(y, f) == f \in DOMAIN y /\ IsNumericField(y[f])
FieldValue(y, f) == IF HasField(y, f) THEN parseFloat(y[f]).v ELSE Zero
Earnings(y) ==
    IF HasField(y, "reportedEPS") THEN FieldValue(y, "reportedEPS")
    ELSE FieldValue(y, "netIncome")

\* C15: in both adapters the earnings fed to the EPS CAGR are the reported
\* per-share earnings of the record when it provides them and its net
\* income when it does not.
C15_EarningsProxy ==
    Computed =>
        LET income == PayloadIncome.items
            fed == IF Yahoo THEN calcCAGR(Earnings(income[4]), Earnings(income[1]), 3)
                   ELSE AVcalcCAGR(Earnings(income[4]), Earnings(income[1]), 3)
        IN  /\ PassedMetrics.epsCagr = fed
            /\ call.ret.data.metrics.epsCagr = Round1(fed)

\* the beta of the payload: a number, or NaN when absent or not numeric
PayloadBeta ==
    IF Yahoo THEN (IF call.payload.beta.t = "number" THEN call.payload.beta ELSE JSNaN)
    ELSE parseFloat(call.payload.OVERVIEW.body.Beta)
Clamp(x, lo, hi) == IF RatLess(x, lo) THEN lo ELSE IF RatLess(hi, x) THEN hi ELSE x

\* C16: for every numeric beta, 0 and negative values included, the WACC is
\* 4.5 + 5.5 * clamp(beta, 0.5, 2.5); an absent or non-numeric beta counts
\* as 1.0, giving 10.0; so the WACC of every run lies in [7.25, 18.25].
C16_WaccFromBeta ==
    Computed =>
        LET wacc == PassedMetrics.wacc
            beta == IF PayloadBeta.t = "number" THEN PayloadBeta.v ELSE One
        IN  /\ wacc = RatAdd(Dec1(45), RatMul(Dec1(55), Clamp(beta, Dec1(5), Dec1(25))))
            /\ RatLeq(Dec2(725), wacc) /\ RatLeq(wacc, Dec2(1825))
            /\ call.ret.data.metrics.wacc = Round1(wacc)

\* g is the growth from prev to curr in percent of |prev|, 0 when prev is 0
IsYoY(g, prev, curr) ==
    IF prev = Zero THEN g = Zero
    ELSE RatMul(g, RatAbs(prev)) = RatMul(RatSub(curr, prev), IntRat(100))

\* C20: both pipelines read the histories newest first: every CAGR has the
\* value of the oldest year (index 3) as start and of the newest year
\* (index 0) as end, and annualRevenueGrowth is the three year-over-year
\* rates [yoy(y3,y2), yoy(y2,y1), yoy(y1,y0)], oldest pair first, with
\* yoy(prev, curr) = 0 if prev = 0 and ((curr-prev)/|prev|)*100 otherwise.
C20_NewestFirst ==
    Computed =>
        LET income == PayloadIncome.items
            cash   == PayloadCashFlow.items
            rev(i) == IF Yahoo THEN YahooRev(income[i]) ELSE AVRev(income[i])
            eps(i) == IF Yahoo THEN YahooEps(income[i]) ELSE AVEps(income[i])
            fcf(i) == IF Yahoo THEN YahooFcf(cash[i]) ELSE AVFcf(cash[i])
            cagr(st, en) == IF Yahoo THEN calcCAGR(st, en, 3) ELSE AVcalcCAGR(st, en, 3)
            m == PassedMetrics
            g == m.annualRevenueGrowth
        IN  /\ m.revenueCagr = cagr(rev(4), rev(1))
            /\ m.epsCagr = cagr(eps(4), eps(1))
            /\ m.fcfCagr = cagr(fcf(4), fcf(1))
            /\ call.ret.data.metrics.revenueCagr = Round1(cagr(rev(4), rev(1)))
            /\ call.ret.data.metrics.epsCagr = Round1(cagr(eps(4), eps(1)))
            /\ call.ret.data.metrics.fcfCagr = Round1(cagr(fcf(4), fcf(1)))
            /\ Len(g) = 3
            /\ IsYoY(g[1], rev(4), rev(3))
            /\ IsYoY(g[2], rev(3), rev(2))
            /\ IsYoY(g[3], rev(2), rev(1))

\* the Yahoo route computed from the four base years: revenue 1000, 2000,
\* 5000, 8000 gives the rates 100, 150 and 60 and a revenue CAGR of 100
C20_Witness ==
    /\ Computed /\ Yahoo
    /\ PayloadIncome = JSArray(Take(YahooIncomeBase, 4))
    /\ PassedMetrics.annualRevenueGrowth = <<IntRat(100), IntRat(150), IntRat(60)>>
    /\ call.ret.data.metrics.revenueCagr = IntRat(100)

\* the return on equity of the payload: a number, or NaN when absent or not numeric
PayloadRoe ==
    IF Yahoo
    THEN (IF call.payload.returnOnEquity.t = "number" THEN call.payload.returnOnEquity
          ELSE JSNaN)
    ELSE parseFloat(call.payload.OVERVIEW.body.ReturnOnEquityTTM)

\* C22: ROIC is returnOnEquity * 100 for every numeric return on equity the
\* provider reports, 0 and negative values included, and 15 only when the
\* value is absent or not a number; no overview value makes the ticker fail.
C22_RoicFromReturnOnEquity ==
    Returned("fetchCompanyData") =>
        /\ (PayloadDelivered /\ LengthOf(PayloadIncome) >= 4 /\ LengthOf(PayloadCashFlow) >= 4)
              => call.ret.kind = "return"
        /\ Computed =>
              LET roic == IF PayloadRoe.t = "number"
                          THEN RatMul(PayloadRoe.v, IntRat(100)) ELSE IntRat(15)
              IN  /\ PassedMetrics.roic = roic
                  /\ call.ret.data.metrics.roic = Round1(roic)

\* x rounded to one decimal, ties away from zero
RoundHalfAway(x) ==
    LET k == RatFloor(RatAdd(RatMul(RatAbs(x), IntRat(10)), Half))
    IN  Rat(RatSign(x) * k, 10)

\* C23: every reported metric is its raw value rounded to one decimal with
\* ties away from zero, sign(x) * floor(|x| * 10 + 1/2) / 10: a raw -0.25 is
\* reported as -0.3 and a raw 0.25 as 0.3.
C23_HalfAwayFromZero ==
    Computed =>
        LET raw == PassedMetrics
            m   == call.ret.data.metrics
        IN  /\ m.revenueCagr = RoundHalfAway(raw.revenueCagr)
            /\ m.epsCagr = RoundHalfAway(raw.epsCagr)
            /\ m.fcfCagr = RoundHalfAway(raw.fcfCagr)
            /\ m.marginDelta = RoundHalfAway(raw.marginDelta)
            /\ m.roic = RoundHalfAway(raw.roic)
            /\ m.wacc = RoundHalfAway(raw.wacc)

\* the numbers of an Alpha Vantage payload as a Yahoo payload: every field
\* is the number its text denotes (NaN when it denotes none), the earnings
\* being reportedEPS on one side and netIncome on the other
SameInputsForYahoo ==
    LET income == call.payload.INCOME_STATEMENT.body.annualReports.items
        cash   == call.payload.CASH_FLOW.body.annualReports.items
        ov     == call.payload.OVERVIEW.body
    IN  YahooSummary(
            JSArray([i \in 1..Len(income) |->
                        [totalRevenue |-> parseFloat(income[i].totalRevenue),
                         operatingIncome |-> parseFloat(income[i].operatingIncome),
                         netIncome |-> parseFloat(income[i].reportedEPS)]]),
            JSArray([i \in 1..Len(cash) |->
                        [totalCashFromOperatingActivities |->
                             parseFloat(cash[i].operatingCashflow),
                         capitalExpenditures |-> parseFloat(cash[i].capitalExpenditures)]]),
            parseFloat(ov.Beta), parseFloat(ov.ReturnOnEquityTTM))

\* C24: on the same numeric inputs (four years of revenue, operating income,
\* earnings, operating cash flow and capital expenditures, with beta and
\* return on equity) the Yahoo pipeline and the Alpha Vantage pipeline give
\* the same growthIndex, baseScore, consistencyFactor, qualityFactor and
\* reported metrics.
C24_PipelinesAgree ==
    (Computed /\ ~Yahoo) =>
        LET av == call.ret.data
            y  == YahooFetchCompanyData(call.ticker, SameInputsForYahoo)
        IN  /\ y.kind = "return"
            /\ y.data.growthIndex = av.growthIndex
            /\ y.data.baseScore = av.baseScore
            /\ y.data.consistencyFactor = av.consistencyFactor
            /\ y.data.qualityFactor = av.qualityFactor
            /\ y.data.metrics = av.metrics

\* an Alpha Vantage run on records with per-share earnings 0.5 growing to 4
\* and capital expenditures reported as negative amounts
C24_Witness ==
    /\ Computed /\ ~Yahoo
    /\ PayloadIncome = JSArray(Take(AVIncomeEps, 4))
    /\ call.ret.data.metrics.epsCagr = IntRat(100)
    /\ call.ret.data.metrics.fcfCagr = IntRat(100)

\* C27: the adjustment factors never flip the sign of the score: for every
\* metrics input a pipeline produces, a negative return on equity included,
\* consistencyFactor * qualityFactor is positive, so growthIndex is never
\* positive when baseScore is negative nor negative when baseScore is positive.
C27_FactorsKeepSign ==
    Computed =>
        LET m  == PassedMetrics
            cf == calculateConsistencyFactor(m.annualRevenueGrowth, DefaultMinCf, DefaultMaxCf)
            qf == calculateQualityFactor(m.roic, m.wacc, DefaultMinQf, DefaultMaxQf)
            d  == call.ret.data
        IN  /\ ~RealLeqRat(RealScale(qf, cf), Zero)
            /\ RatLess(d.baseScore, Zero) => RatLeq(d.growthIndex, Zero)
            /\ RatLess(Zero, d.baseScore) => RatLeq(Zero, d.growthIndex)

(***************************************************************************)
(* SpecBatch: one lookup request served by the POST handler of a route     *)
(***************************************************************************)
MaxTickers == 11
YahooMaxCount == 10
AVMaxCount == 5

\* the whole list
Slice_all(seq, n) == seq

\* tickers.slice(0, n)
Slice(seq, n) == SubSeq(seq, 1, IF n < Len(seq) THEN n ELSE Len(seq))

\* array.join(", ")
RECURSIVE Join_comma(_)
Join_comma(strs) ==
    IF strs = <<>> THEN <<>>
    ELSE IF Len(strs) = 1 THEN strs[1]
    ELSE strs[1] \o <<", ">> \o Join_comma(Tail(strs))

\* array.join("; ") of an array of strings
RECURSIVE Join(_)
Join(strs) ==
    IF strs = <<>> THEN <<>>
    ELSE IF Len(strs) = 1 THEN strs[1]
    ELSE strs[1] \o <<"; ">> \o Join(Tail(strs))

\* the entries before the first one that carries an error
RECURSIVE FilterOk_untilError(_)
FilterOk_untilError(rs) ==
    IF rs = <<>> THEN <<>>
    ELSE IF "error" \in DOMAIN Head(rs) THEN <<>>
    ELSE <<Head(rs)>> \o FilterOk_untilError(Tail(rs))

\* results.filter((r) => !("error" in r)) and results.map((r) => r.error)
RECURSIVE FilterOk(_)
FilterOk(rs) ==
    IF rs = <<>> THEN <<>>
    ELSE IF "error" \in DOMAIN Head(rs) THEN FilterOk(Tail(rs))
    ELSE <<Head(rs)>> \o FilterOk(Tail(rs))
\* an entry without an error maps to undefined, which join renders as ""
MapError(rs) ==
    [i \in 1..Len(rs) |-> IF "error" \in DOMAIN rs[i] THEN rs[i].error ELSE <<>>]

\* the i-th ticker of a request body; the first carries surrounding blanks
TickerAt(i) ==
    IF i = 1 THEN JSStr(<<" ", "a", "a", " ">>)
    ELSE JSStr(<<Lower[((i - 1) % Len(Lower)) + 1],
                 Upper[(((i - 1) \div Len(Lower)) % Len(Upper)) + 1]>>)

\* request bodies: no tickers key, lists of 0 .. MaxTickers strings, and
\* lists whose second element is a number; with and without an API key
TickerLists ==
    {[i \in 1..n |-> TickerAt(i)] : n \in 0..MaxTickers}
    \cup {[i \in 1..n |-> IF i = 2 THEN JSNum(IntRat(7)) ELSE TickerAt(i)] : n \in 2..3}
RequestBodies(keys) ==
    {[tickers |-> JSUndefined, apiKey |-> k] : k \in keys}
    \cup {[tickers |-> JSArray(l), apiKey |-> k] : l \in TickerLists, k \in keys}

\* what the provider may answer for one ticker of a batch
YahooCanned ==
    <<YahooSummary(JSArray(Take(YahooIncomeBase, 4)), JSArray(Take(YahooCashBase, 4)),
                   JSNum(Dec1(12)), JSNum(Dec2(30))),
      YahooSummary(JSArray(Take(YahooIncomeBase, 3)), JSArray(Take(YahooCashBase, 4)),
                   JSNum(Dec1(12)), JSNum(Dec2(30)))>>
AVCanned ==
    <<AVFeed(AVGoodIncome, AVGoodCash, AVGoodOverview),
      AVFeed(AVGoodIncome, AVStatement(JSArray(Take(AVCashBase, 2))), AVGoodOverview),
      AVFeed(AVGoodIncome, AVOk([errorMessage |-> JSUndefined, note |-> TRUE]),
             AVGoodOverview)>>

BatchInit ==
    /\ CalcIdle /\ ConcIdle /\ RateIdle /\ PageFresh
    /\ \/ provider = "yahoo" /\ request \in RequestBodies({""})
       \/ provider = "alpha-vantage" /\ request \in RequestBodies({"", "K1"})
    /\ hpc = "received"
    /\ idx = 0
    /\ results = <<>>
    /\ response = NoResponse
    /\ fetched = <<>>
    /\ currentApiKey = ""

MaxCount == IF provider = "yahoo" THEN YahooMaxCount ELSE AVMaxCount
Sliced == Slice(request.tickers.items, MaxCount)

Json(status, body) == [x \in DOMAIN body \cup {"status"} |->
                          IF x = "status" THEN status ELSE body[x]]

\* lines 215-217 and 1317-1323: the guards before the loop
Validate ==
    /\ hpc = "received"
    /\ IF LengthOf(request.tickers) = 0
       THEN /\ response' = Json(400, [success |-> FALSE, error |-> <<"No tickers">>])
            /\ hpc' = "done"
            /\ UNCHANGED currentApiKey
       ELSE IF provider = "alpha-vantage" /\ request.apiKey = ""
       THEN /\ response' = Json(400, [success |-> FALSE,
                                      error |-> <<"Alpha Vantage API key required">>])
            /\ hpc' = "done"
            /\ UNCHANGED currentApiKey
       ELSE /\ hpc' = "loop"
            /\ currentApiKey' = IF provider = "alpha-vantage" THEN request.apiKey
                                ELSE currentApiKey
            /\ UNCHANGED response
    /\ idx' = 1
    /\ UNCHANGED <<provider, request, results, fetched, call, concVars, rateVars, pageVars>>

\* one iteration of the for-loop over tickers.slice(0, maxCount) on a string
\* ticker: the provider answers with one of the canned answers
ProcessTicker ==
    /\ hpc = "loop"
    /\ idx <= Len(Sliced)
    /\ Sliced[idx].t = "string"
    /\ \E t \in {Sliced[idx].s} :
       \E clean \in {toUpperCase(trim(t))} :
       \E k \in 1..(IF provider = "yahoo" THEN Len(YahooCanned) ELSE Len(AVCanned)) :
       \E outcome \in {IF provider = "yahoo"
                       THEN YahooFetchCompanyData(clean, YahooCanned[k])
                       ELSE AVFetchCompanyData(currentApiKey, clean, AVCanned[k])} :
          /\ results' = Append(results,
                IF outcome.kind = "return" THEN outcome.data
                ELSE [ticker |-> toUpperCase(t), error |-> outcome.message])
          /\ fetched' = Append(fetched,
                [ticker |-> clean, answer |-> k, threw |-> outcome.kind = "throw",
                 message |-> IF outcome.kind = "throw" THEN outcome.message ELSE <<>>])
    /\ idx' = idx + 1
    /\ UNCHANGED <<provider, request, hpc, response, currentApiKey, call, concVars, rateVars, pageVars>>

\* an iteration on a ticker that is no string: t.trim() throws inside the
\* try, t.toUpperCase() throws inside the catch, and the outer catch answers
ProcessNonString ==
    /\ hpc = "loop"
    /\ idx <= Len(Sliced)
    /\ Sliced[idx].t # "string"
    /\ response' = Json(500, [success |-> FALSE,
                              error |-> <<"t.toUpperCase is not a function">>])
    /\ hpc' = "done"
    /\ UNCHANGED <<provider, request, idx, results, fetched, currentApiKey, call, concVars, rateVars, pageVars>>

\* lines 230-237 and 1336-1343: the response after the loop
Respond ==
    /\ hpc = "loop"
    /\ idx > Len(Sliced)
    /\ LET ok == FilterOk(results)
       IN  response' = IF ok = <<>>
                       THEN Json(400, [success |-> FALSE, error |-> Join(MapError(results))])
                       ELSE Json(200, [success |-> TRUE, data |-> ok])
    /\ hpc' = "done"
    /\ UNCHANGED <<provider, request, idx, results, fetched, currentApiKey, call, concVars, rateVars, pageVars>>

BatchNext ==
    \/ Validate
    \/ ProcessTicker
    \/ ProcessNonString
    \/ Respond

SpecBatch == BatchInit /\ [][BatchNext]_vars

(***************************************************************************)
(* Properties of the POST handlers, checked under SpecBatch                *)
(***************************************************************************)
AllStrings ==
    /\ request.tickers.t = "array"
    /\ \A i \in 1..Len(request.tickers.items) : request.tickers.items[i].t = "string"

\* the handler has answered a request that names at least one ticker, all of
\* them strings, and (for Alpha Vantage) carries a key
BatchAnswered ==
    /\ hpc = "done"
    /\ AllStrings /\ Len(request.tickers.items) > 0
    /\ provider = "alpha-vantage" => request.apiKey # ""

\* the i-th ticker of the request as the provider is asked for it
Clean(i) == toUpperCase(trim(request.tickers.items[i].s))
Cap == IF provider = "yahoo" THEN 10 ELSE 5
Processed == IF Len(request.tickers.items) < Cap THEN Len(request.tickers.items) ELSE Cap

\* the tickers among the first n fetched for which fetchCompanyData returned
RECURSIVE Succeeded(_)
Succeeded(n) ==
    IF n = 0 THEN <<>>
    ELSE IF fetched[n].threw THEN Succeeded(n - 1)
    ELSE Append(Succeeded(n - 1), fetched[n].ticker)

\* the messages thrown for the first n tickers, each but the first after "; "
RECURSIVE Thrown(_)
Thrown(n) ==
    IF n = 0 THEN <<>>
    ELSE IF n = 1 THEN fetched[1].message
    ELSE Thrown(n - 1) \o <<"; ">> \o fetched[n].message

Contains(hay, needle) ==
    \E off \in 0..(Len(hay) - Len(needle)) :
        SubSeq(hay, off + 1, off + Len(needle)) = needle

\* C5: once a request with a non-empty list of string tickers is answered,
\* every ticker within the cap has been passed to fetchCompanyData, whatever
\* happened to the tickers before it; success is true exactly when
\* fetchCompanyData returned for at least one of them; and data holds the
\* results of those tickers, each with its growth index, in input order.
C5_FailuresIsolated ==
    BatchAnswered =>
        /\ Len(fetched) = Processed
        /\ \A i \in 1..Processed : fetched[i].ticker = Clean(i)
        /\ response.success = (\E i \in 1..Len(fetched) : ~fetched[i].threw)
        /\ response.success =>
              /\ [j \in 1..Len(response.data) |-> response.data[j].ticker]
                    = Succeeded(Len(fetched))
              /\ \A j \in 1..Len(response.data) : "growthIndex" \in DOMAIN response.data[j]

C5_Witness ==
    /\ BatchAnswered
    /\ Len(fetched) >= 3
    /\ fetched[1].threw /\ ~fetched[2].threw /\ fetched[3].threw
    /\ response.success

\* C6: after a batch in which some tickers succeeded and others failed, the
\* response holds an entry for every processed ticker, and the entry of a
\* failed ticker carries its reason.
C6_EveryTickerReported ==
    (BatchAnswered /\ response.success) =>
        \A i \in 1..Len(fetched) :
            \E j \in 1..Len(response.data) :
                /\ toUpperCase(trim(response.data[j].ticker)) = fetched[i].ticker
                /\ fetched[i].threw => /\ "error" \in DOMAIN response.data[j]
                                       /\ response.data[j].error = fetched[i].message

\* C7: when fetchCompanyData threw for every processed ticker, the response
\* is the 400 failure whose error is the thrown messages in input order with
\* "; " between them, so that each message occurs in it.
C7_AllFailedJoined ==
    (BatchAnswered /\ \A i \in 1..Len(fetched) : fetched[i].threw) =>
        /\ response.status = 400
        /\ response.success = FALSE
        /\ response.error = Thrown(Len(fetched))
        /\ \A i \in 1..Len(fetched) : Contains(response.error, fetched[i].message)

C7_Witness ==
    /\ BatchAnswered
    /\ Len(fetched) >= 2
    /\ \A i \in 1..Len(fetched) : fetched[i].threw
    /\ fetched[1].message # fetched[2].message
    /\ response.status = 400

\* C8: at every moment of a request with string tickers, the only tickers
\* fetched are the first 10 (Yahoo) or 5 (Alpha Vantage) of the list; a
\* ticker after them occurs in no result, no failure and no part of the
\* response, and the success flag and the error message are those of the
\* first 10 or 5 tickers alone.
C8_CapRespected ==
    (AllStrings /\ hpc # "received") =>
        /\ Len(fetched) <= Cap
        /\ Len(results) = Len(fetched)
        /\ \A j \in 1..Len(request.tickers.items) :
              j > Cap =>
                 /\ \A i \in 1..Len(fetched) : fetched[i].ticker # Clean(j)
                 /\ \A i \in 1..Len(results) :
                       toUpperCase(trim(results[i].ticker)) # Clean(j)
                 /\ "data" \in DOMAIN response =>
                       \A i \in 1..Len(response.data) : response.data[i].ticker # Clean(j)
                 /\ "error" \in DOMAIN response => ~Contains(response.error, Clean(j))
        /\ BatchAnswered =>
              /\ response.success = (\E i \in 1..Processed : ~fetched[i].threw)
              /\ ~response.success => response.error = Thrown(Processed)

C8_Witness ==
    /\ BatchAnswered
    /\ provider = "yahoo"
    /\ Len(request.tickers.items) > 10
    /\ Len(fetched) = 10
    /\ ~response.success

(***************************************************************************)
(* SpecConc: two Alpha Vantage lookup requests served by one module        *)
(* instance, interleaved at the awaits of POST, fetchCompanyData, fetchAV  *)
(***************************************************************************)
MaxConcTickers == 2
ConcKeys == <<"K1", "K2">>

\* what the provider may answer to one fetch of a function
ConcAnswers(fn) ==
    {AVOk([errorMessage |-> JSUndefined, note |-> TRUE]),
     CASE fn = "INCOME_STATEMENT" -> AVGoodIncome
       [] fn = "CASH_FLOW" -> AVGoodCash
       [] fn = "OVERVIEW" -> AVGoodOverview}

\* a request whose body is still being read
NewRequest(r, n) ==
    [body |-> [tickers |-> JSArray([i \in 1..n |-> TickerAt(i)]), apiKey |-> ConcKeys[r]],
     pc |-> "json", i |-> 0, ticker |-> <<>>, urlKey |-> "",
     incomeData |-> JSUndefined, cashFlowData |-> JSUndefined,
     results |-> <<>>, response |-> NoResponse]

ConcInit ==
    /\ CalcIdle /\ BatchIdle /\ RateIdle /\ PageFresh
    /\ currentApiKey = ""
    /\ reqs \in {<<NewRequest(1, n1), NewRequest(2, n2)>> :
                    n1 \in 1..MaxConcTickers, n2 \in 1..MaxConcTickers}
    /\ fetchLog = {}

\* the synchronous head of fetchAV(fn, ticker): the URL takes the key that
\* currentApiKey holds now, and the fetch is on its way.  currentApiKey is
\* never empty here: the issuing request assigned its own key before.
IssueFetch(r, rec, fn, pc) ==
    /\ reqs' = [reqs EXCEPT ![r] = [rec EXCEPT !.pc = pc, !.urlKey = currentApiKey]]
    /\ fetchLog' = fetchLog \cup
          {[req |-> r, ticker |-> rec.ticker, fn |-> fn, key |-> currentApiKey]}

\* lines 1336-1343 on the results of the request
Answer(rec) ==
    LET ok == FilterOk(rec.results)
    IN  [rec EXCEPT !.pc = "done",
                    !.response =
                        IF ok = <<>>
                        THEN Json(400, [success |-> FALSE,
                                        error |-> Join(MapError(rec.results))])
                        ELSE Json(200, [success |-> TRUE, data |-> ok])]

\* the for-loop reaches its i-th iteration: fetchCompanyData starts on the
\* i-th ticker and issues its first fetch, or the loop is over
Iterate(r, rec, i) ==
    LET sl == Slice(rec.body.tickers.items, AVMaxCount)
    IN  IF i > Len(sl)
        THEN /\ reqs' = [reqs EXCEPT ![r] = Answer(rec)]
             /\ UNCHANGED fetchLog
        ELSE IssueFetch(r, [rec EXCEPT !.i = i, !.ticker = toUpperCase(trim(sl[i].s))],
                        "INCOME_STATEMENT", "income")

\* request.json() resolves: lines 1317-1326 up to the first await
ReceiveBody(r) ==
    /\ reqs[r].pc = "json"
    /\ IF LengthOf(reqs[r].body.tickers) = 0
       THEN /\ reqs' = [reqs EXCEPT ![r].pc = "done",
                           ![r].response = Json(400, [success |-> FALSE,
                                                      error |-> <<"No tickers">>])]
            /\ UNCHANGED <<currentApiKey, fetchLog>>
       ELSE IF reqs[r].body.apiKey = ""
       THEN /\ reqs' = [reqs EXCEPT ![r].pc = "done",
                           ![r].response = Json(400, [success |-> FALSE,
                                   error |-> <<"Alpha Vantage API key required">>])]
            /\ UNCHANGED <<currentApiKey, fetchLog>>
       ELSE \* the first fetchAV runs before any await and reads the key just assigned
            /\ currentApiKey' = reqs[r].body.apiKey
            /\ \E key \in {reqs[r].body.apiKey} :
                  LET sl == Slice(reqs[r].body.tickers.items, AVMaxCount)
                  IN  /\ reqs' = [reqs EXCEPT ![r] =
                             [@ EXCEPT !.pc = "income", !.i = 1, !.urlKey = key,
                                       !.ticker = toUpperCase(trim(sl[1].s))]]
                      /\ fetchLog' = fetchLog \cup
                            {[req |-> r, ticker |-> toUpperCase(trim(sl[1].s)),
                              fn |-> "INCOME_STATEMENT", key |-> key]}
    /\ UNCHANGED <<call, batchVars, pageVars>>

FnAt(pc) == CASE pc = "income" -> "INCOME_STATEMENT"
              [] pc = "cash" -> "CASH_FLOW"
              [] pc = "overview" -> "OVERVIEW"

\* a fetch resolves and fetchAV finishes; fetchCompanyData goes on to its
\* next await, or ends and the loop goes on
FetchReturns(r) ==
    /\ reqs[r].pc \in {"income", "cash", "overview"}
    /\ \E res \in ConcAnswers(FnAt(reqs[r].pc)) :
       \E got \in {fetchAV(reqs[r].urlKey, res)} :
       \E rec \in {reqs[r]} :
          IF got.kind = "throw"
          THEN Iterate(r, [rec EXCEPT !.results =
                              Append(@, [ticker |-> toUpperCase(
                                                      rec.body.tickers.items[rec.i].s),
                                         error |-> got.message])],
                       rec.i + 1)
          ELSE IF rec.pc = "income"
          THEN /\ reqs' = [reqs EXCEPT ![r] = [rec EXCEPT !.pc = "delay1",
                                                          !.incomeData = got.data]]
               /\ UNCHANGED fetchLog
          ELSE IF rec.pc = "cash"
          THEN /\ reqs' = [reqs EXCEPT ![r] = [rec EXCEPT !.pc = "delay2",
                                                          !.cashFlowData = got.data]]
               /\ UNCHANGED fetchLog
          ELSE \E out \in {AVAfterFetches(rec.ticker, rec.incomeData, rec.cashFlowData,
                                          got.data)} :
                  Iterate(r, [rec EXCEPT !.results =
                                 Append(@, IF out.kind = "return" THEN out.data
                                           ELSE [ticker |-> toUpperCase(
                                                      rec.body.tickers.items[rec.i].s),
                                                 error |-> out.message])],
                          rec.i + 1)
    /\ UNCHANGED <<call, batchVars, currentApiKey, pageVars>>

\* delay(1000) resolves and the next fetchAV starts
DelayEnds(r) ==
    /\ reqs[r].pc \in {"delay1", "delay2"}
    /\ IF reqs[r].pc = "delay1"
       THEN IssueFetch(r, reqs[r], "CASH_FLOW", "cash")
       ELSE IssueFetch(r, reqs[r], "OVERVIEW", "overview")
    /\ UNCHANGED <<call, batchVars, currentApiKey, pageVars>>

\* the handlers of both requests; time is not followed
ConcNext ==
    \/ \E r \in 1..Len(ConcKeys) : ReceiveBody(r) /\ UNCHANGED rateVars
    \/ \E r \in 1..Len(ConcKeys) : FetchReturns(r) /\ UNCHANGED rateVars
    \/ \E r \in 1..Len(ConcKeys) : DelayEnds(r) /\ UNCHANGED rateVars

SpecConc == ConcInit /\ [][ConcNext]_vars

\* C9: every fetch issued for a request carries the API key of that request.
C9_OwnKeyUsed ==
    \A e \in fetchLog : e.key = reqs[e.req].body.apiKey

(***************************************************************************)
(* SpecRate: one Alpha Vantage lookup request with the times of its        *)
(* fetches.  A fetch returns after any time; delay(1000) resolves once     *)
(* 1000 ms have passed.                                                    *)
(***************************************************************************)
MaxRateTickers == 2
TickMs == 500
MaxTicks == 8
DelayMs == 1000

RateInit ==
    /\ CalcIdle /\ BatchIdle /\ RateIdle /\ PageFresh
    /\ currentApiKey = ""
    /\ reqs \in {<<NewRequest(1, n)>> : n \in 1..MaxRateTickers}
    /\ fetchLog = {}

\* the step of the handler sent a fetch (it is stamped with the time) or
\* started a delay (the timer is set DelayMs ahead)
Stamp ==
    /\ sentAt' = IF fetchLog' # fetchLog THEN Append(sentAt, now) ELSE sentAt
    /\ wake' = IF reqs'[1].pc \in {"delay1", "delay2"} THEN now + DelayMs ELSE wake
    /\ UNCHANGED now

RateReceiveBody == ReceiveBody(1) /\ Stamp
RateFetchReturns == FetchReturns(1) /\ Stamp
RateDelayEnds == now >= wake /\ DelayEnds(1) /\ Stamp

\* time passes
Tick ==
    /\ now < MaxTicks * TickMs
    /\ now' = now + TickMs
    /\ UNCHANGED <<call, batchVars, currentApiKey, concVars, wake, sentAt, pageVars>>

RateNext ==
    \/ RateReceiveBody
    \/ RateFetchReturns
    \/ RateDelayEnds
    \/ Tick

SpecRate == RateInit /\ [][RateNext]_vars

\* C21: within one Alpha Vantage lookup request at least 1000 ms pass between
\* any two consecutive fetches sent to the provider, also between the last
\* fetch for one ticker and the first fetch for the next ticker, and after a
\* fetch that failed.
C21_FetchesSpaced ==
    \A k \in 1..(Len(sentAt) - 1) : sentAt[k + 1] - sentAt[k] >= 1000

(***************************************************************************)
(* SpecPage: the search page (routes/config/+page.svelte, lines 337-507).  *)
(* One action per event handler; a fetch that is awaited is in flight      *)
(* until the action of its response.                                       *)
(***************************************************************************)
MaxSelected == 2
MaxLookups == 2
MaxQueries == 2
MaxEvents == 8

\* what the user types, and what the clipboard holds
PageTexts == {<<>>, <<"a", "a">>, <<"b", "b">>}
PasteTexts == {<<"a", "a", ",", " ", "b", "b">>, <<"a", "a", " ", "a", "a">>}

\* what /api/search answers to a query (its `results`)
SearchResults(query) ==
    IF toUpperCase(trim(query)) = <<"A", "A">>
    THEN <<[symbol |-> <<"A", "A">>, name |-> "Alpha", exchange |-> "NMS"],
           [symbol |-> <<"B", "B">>, name |-> "Beta", exchange |-> "NYQ"]>>
    ELSE IF toUpperCase(trim(query)) = <<"B", "B">>
    THEN <<[symbol |-> <<"B", "B">>, name |-> "Beta", exchange |-> "NYQ"]>>
    ELSE <<>>

\* the growth index a lookup route reports for a symbol
CannedGrowthIndex(symbol) == IF symbol = <<"A", "A">> THEN IntRat(10) ELSE IntRat(20)
ResultOf(symbol) == [ticker |-> symbol, growthIndex |-> CannedGrowthIndex(symbol)]

\* the responses a lookup route may give to the tickers of a request, in the
\* order of the request: every ticker, the first ticker only, no success
\* with or without a message; or the fetch rejects
LookupAnswers(tickers) ==
    {[rejects |-> FALSE, success |-> TRUE,
      data |-> [i \in 1..Len(tickers) |-> ResultOf(tickers[i])], error |-> <<>>],
     [rejects |-> FALSE, success |-> TRUE, data |-> <<ResultOf(tickers[1])>>, error |-> <<>>],
     [rejects |-> FALSE, success |-> FALSE, data |-> <<>>, error |-> <<"No tickers">>],
     [rejects |-> FALSE, success |-> FALSE, data |-> <<>>, error |-> <<>>],
     [rejects |-> TRUE, success |-> FALSE, data |-> <<>>, error |-> <<>>]}

PageInit ==
    /\ CalcIdle /\ BatchIdle /\ ConcIdle /\ RateIdle
    /\ currentApiKey = ""
    /\ PageFresh

serverVars == <<call, batchVars, currentApiKey, concVars, rateVars>>

\* the requests in flight once the i-th was answered: the older ones are overtaken
AfterAnswer(inFlight, i) ==
    [k \in 1..(Len(inFlight) - 1) |->
        IF k < i THEN [inFlight[k] EXCEPT !.overtaken = TRUE] ELSE inFlight[k + 1]]

Max(a, b) == IF a < b THEN b ELSE a
Min(a, b) == IF a < b THEN a ELSE b

\* selectedTickers.some((t) => t.symbol === symbol)
IsSelected(symbol) == \E i \in 1..Len(selectedTickers) : selectedTickers[i].symbol = symbol

\* s.replace(/,/g, "")
RECURSIVE RemoveCommas(_)
RemoveCommas(s) ==
    IF s = <<>> THEN <<>>
    ELSE IF Head(s) = "," THEN RemoveCommas(Tail(s))
    ELSE <<Head(s)>> \o RemoveCommas(Tail(s))

\* text.split(/[,\s]+/).filter(Boolean): the maximal runs of characters
\* other than commas and blanks; `word` is the run being read
RECURSIVE SplitFrom(_, _)
SplitFrom(text, word) ==
    IF text = <<>> THEN (IF word = <<>> THEN <<>> ELSE <<word>>)
    ELSE IF Head(text) \in {",", " "}
    THEN (IF word = <<>> THEN <<>> ELSE <<word>>) \o SplitFrom(Tail(text), <<>>)
    ELSE SplitFrom(Tail(text), Append(word, Head(text)))
Split(text) == SplitFrom(text, <<>>)

\* results.sort((a, b) => b.growthIndex - a.growthIndex), a stable sort
RECURSIVE InsertByGrowthIndex(_, _)
InsertByGrowthIndex(sorted, x) ==
    IF sorted = <<>> THEN <<x>>
    ELSE IF RatLess(Head(sorted).growthIndex, x.growthIndex)
    THEN <<x>> \o sorted
    ELSE <<Head(sorted)>> \o InsertByGrowthIndex(Tail(sorted), x)
RECURSIVE SortByGrowthIndex(_, _)
SortByGrowthIndex(list, n) ==
    IF n = 0 THEN <<>>
    ELSE InsertByGrowthIndex(SortByGrowthIndex(list, n - 1), list[n])

\* fetchSuggestions(query) up to its await (lines 362-370)
FetchSuggestions(query) ==
    IF trim(query) = <<>>
    THEN /\ suggestions' = <<>>
         /\ showSuggestions' = FALSE
         /\ history' = [history EXCEPT !.events = @ + 1, !.staleSuggestions = FALSE]
         /\ UNCHANGED <<isSearching, queries>>
    ELSE /\ Len(queries) < MaxQueries
         /\ isSearching' = TRUE
         /\ queries' = Append(queries, [query |-> query, overtaken |-> FALSE])
         /\ history' = [history EXCEPT !.events = @ + 1]
         /\ UNCHANGED <<suggestions, showSuggestions>>

\* addTicker(suggestion) (lines 389-395)
addTicker(suggestion) ==
    /\ Len(selectedTickers) < MaxSelected
    /\ selectedTickers' = Append(selectedTickers,
                                 [symbol |-> suggestion.symbol, name |-> suggestion.name])
    /\ inputValue' = <<>>
    /\ suggestions' = <<>>
    /\ showSuggestions' = FALSE
    /\ history' = [history EXCEPT !.events = @ + 1, !.staleSuggestions = FALSE]
    /\ UNCHANGED <<highlightedIndex, isLoading, isSearching, error, pageResults,
                   selectedCompany, searchTimeout, lookups, queries>>

\* addTickerFromInput() (lines 401-409)
addTickerFromInput ==
    /\ \E symbol \in {RemoveCommas(toUpperCase(trim(inputValue)))} :
          IF symbol # <<>> /\ ~IsSelected(symbol)
          THEN /\ Len(selectedTickers) < MaxSelected
               /\ selectedTickers' = Append(selectedTickers,
                                            [symbol |-> symbol, name |-> symbol])
          ELSE UNCHANGED selectedTickers
    /\ inputValue' = <<>>
    /\ suggestions' = <<>>
    /\ showSuggestions' = FALSE
    /\ history' = [history EXCEPT !.events = @ + 1, !.staleSuggestions = FALSE]
    /\ UNCHANGED <<highlightedIndex, isLoading, isSearching, error, pageResults,
                   selectedCompany, searchTimeout, lookups, queries>>

\* search() up to its await (lines 450-475): the request is on its way
search ==
    IF Len(selectedTickers) = 0 THEN UNCHANGED pageVars
    ELSE /\ Len(lookups) < MaxLookups
         /\ isLoading' = TRUE
         /\ error' = <<>>
         /\ selectedCompany' = JSNull
         /\ showSuggestions' = FALSE
         /\ lookups' = Append(lookups,
               [tickers |-> [i \in 1..Len(selectedTickers) |-> selectedTickers[i].symbol],
                overtaken |-> FALSE])
         /\ history' = [history EXCEPT !.events = @ + 1, !.outcome = "none"]
         /\ UNCHANGED <<inputValue, selectedTickers, suggestions, highlightedIndex,
                        isSearching, pageResults, searchTimeout, queries>>

\* the user edits the text of the box: bind:value, then handleInput (lines 384-387)
Input ==
    /\ history.events < MaxEvents
    /\ \E text \in PageTexts : text # inputValue /\ inputValue' = text
    /\ searchTimeout' = TRUE
    /\ UNCHANGED <<selectedTickers, suggestions, showSuggestions, highlightedIndex,
                   isLoading, isSearching, error, pageResults, selectedCompany,
                   lookups, queries>>
    /\ history' = [history EXCEPT !.events = @ + 1]
    /\ UNCHANGED serverVars

\* the timer of handleInput fires (line 386)
SearchTimeoutFires ==
    /\ history.events < MaxEvents
    /\ searchTimeout
    /\ searchTimeout' = FALSE
    /\ FetchSuggestions(inputValue)
    /\ UNCHANGED <<inputValue, selectedTickers, highlightedIndex, isLoading, error,
                   pageResults, selectedCompany, lookups>>
    /\ UNCHANGED serverVars

\* onfocus (line 630)
Focus ==
    /\ history.events < MaxEvents
    /\ inputValue # <<>>
    /\ FetchSuggestions(inputValue)
    /\ UNCHANGED <<inputValue, selectedTickers, highlightedIndex, isLoading, error,
                   pageResults, selectedCompany, searchTimeout, lookups>>
    /\ UNCHANGED serverVars

\* the response to a suggestion fetch arrives (lines 371-381); it may fail
SuggestionsArrive ==
    /\ history.events < MaxEvents
    /\ \E i \in 1..Len(queries) : \E fails \in BOOLEAN :
          /\ queries' = AfterAnswer(queries, i)
          /\ IF fails
             THEN /\ suggestions' = <<>>
                  /\ UNCHANGED <<showSuggestions, highlightedIndex>>
             ELSE /\ suggestions' = SelectSeq(SearchResults(queries[i].query),
                                              LAMBDA x : ~IsSelected(x.symbol))
                  /\ showSuggestions' = (Len(suggestions') > 0)
                  /\ highlightedIndex' = -1
          /\ history' = [history EXCEPT !.events = @ + 1, !.staleSuggestions = queries[i].overtaken]
    /\ isSearching' = FALSE
    /\ UNCHANGED <<inputValue, selectedTickers, isLoading, error, pageResults,
                   selectedCompany, searchTimeout, lookups>>
    /\ UNCHANGED serverVars

\* onmousedown on an entry of the dropdown (line 648)
ClickSuggestion ==
    /\ history.events < MaxEvents
    /\ showSuggestions
    /\ \E i \in 1..Len(suggestions) : addTicker(suggestions[i])
    /\ UNCHANGED serverVars

\* handleKeydown (lines 411-437), one action per key
KeyArrowDown ==
    /\ history.events < MaxEvents
    /\ showSuggestions
    /\ highlightedIndex' = Min(highlightedIndex + 1, Len(suggestions) - 1)
    /\ UNCHANGED <<inputValue, selectedTickers, suggestions, showSuggestions, isLoading,
                   isSearching, error, pageResults, selectedCompany, searchTimeout,
                   lookups, queries>>
    /\ history' = [history EXCEPT !.events = @ + 1]
    /\ UNCHANGED serverVars

KeyArrowUp ==
    /\ history.events < MaxEvents
    /\ showSuggestions
    /\ highlightedIndex' = Max(highlightedIndex - 1, 0)
    /\ UNCHANGED <<inputValue, selectedTickers, suggestions, showSuggestions, isLoading,
                   isSearching, error, pageResults, selectedCompany, searchTimeout,
                   lookups, queries>>
    /\ history' = [history EXCEPT !.events = @ + 1]
    /\ UNCHANGED serverVars

KeyEnter ==
    /\ history.events < MaxEvents
    /\ IF highlightedIndex >= 0 /\ highlightedIndex < Len(suggestions)
       THEN addTicker(suggestions[highlightedIndex + 1])
       ELSE IF trim(inputValue) # <<>>
       THEN addTickerFromInput
       ELSE search
    /\ UNCHANGED serverVars

KeyCommaOrSpace ==
    /\ history.events < MaxEvents
    /\ trim(inputValue) # <<>>
    /\ addTickerFromInput
    /\ UNCHANGED serverVars

KeyBackspace ==
    /\ history.events < MaxEvents
    /\ inputValue = <<>> /\ Len(selectedTickers) > 0
    /\ selectedTickers' = SubSeq(selectedTickers, 1, Len(selectedTickers) - 1)
    /\ UNCHANGED <<inputValue, suggestions, showSuggestions, highlightedIndex, isLoading,
                   isSearching, error, pageResults, selectedCompany, searchTimeout,
                   lookups, queries>>
    /\ history' = [history EXCEPT !.events = @ + 1]
    /\ UNCHANGED serverVars

\* Escape (line 434), and the timer of onblur (line 631)
HideSuggestions ==
    /\ history.events < MaxEvents
    /\ showSuggestions
    /\ showSuggestions' = FALSE
    /\ UNCHANGED <<inputValue, selectedTickers, suggestions, highlightedIndex, isLoading,
                   isSearching, error, pageResults, selectedCompany, searchTimeout,
                   lookups, queries>>
    /\ history' = [history EXCEPT !.events = @ + 1]
    /\ UNCHANGED serverVars

\* handlePaste (lines 439-448)
Paste ==
    /\ history.events < MaxEvents
    /\ \E text \in PasteTexts :
          LET symbols == [i \in 1..Len(Split(text)) |-> toUpperCase(trim(Split(text)[i]))]
              fresh == SelectSeq(symbols, LAMBDA x : x # <<>> /\ ~IsSelected(x))
              newTickers == [i \in 1..Len(fresh) |-> [symbol |-> fresh[i], name |-> fresh[i]]]
          IN  /\ Len(selectedTickers) + Len(newTickers) <= MaxSelected
              /\ selectedTickers' = selectedTickers \o newTickers
    /\ inputValue' = <<>>
    /\ UNCHANGED <<suggestions, showSuggestions, highlightedIndex, isLoading,
                   isSearching, error, pageResults, selectedCompany, searchTimeout,
                   lookups, queries>>
    /\ history' = [history EXCEPT !.events = @ + 1]
    /\ UNCHANGED serverVars

\* the X of a chip: removeTicker(ticker.symbol) (lines 397-399, 617)
RemoveTicker ==
    /\ history.events < MaxEvents
    /\ \E i \in 1..Len(selectedTickers) :
          selectedTickers' = SelectSeq(selectedTickers,
                                       LAMBDA x : x.symbol # selectedTickers[i].symbol)
    /\ UNCHANGED <<inputValue, suggestions, showSuggestions, highlightedIndex, isLoading,
                   isSearching, error, pageResults, selectedCompany, searchTimeout,
                   lookups, queries>>
    /\ history' = [history EXCEPT !.events = @ + 1]
    /\ UNCHANGED serverVars

\* clear() (lines 499-507), from the button shown at lines 635-642
Clear ==
    /\ history.events < MaxEvents
    /\ Len(selectedTickers) > 0 \/ inputValue # <<>>
    /\ inputValue' = <<>>
    /\ selectedTickers' = <<>>
    /\ suggestions' = <<>>
    /\ showSuggestions' = FALSE
    /\ pageResults' = <<>>
    /\ error' = <<>>
    /\ selectedCompany' = JSNull
    /\ history' = [history EXCEPT !.events = @ + 1, !.outcome = "none",
                                !.staleResults = FALSE, !.staleSuggestions = FALSE]
    /\ UNCHANGED <<highlightedIndex, isLoading, isSearching, searchTimeout, lookups, queries>>
    /\ UNCHANGED serverVars

\* the Analyze button (lines 661-664)
ClickAnalyze ==
    /\ history.events < MaxEvents
    /\ ~isLoading /\ Len(selectedTickers) > 0
    /\ search
    /\ UNCHANGED serverVars

\* the response to the request of a search() call arrives (lines 477-496)
LookupResponds ==
    /\ history.events < MaxEvents
    /\ \E i \in 1..Len(lookups) : \E data \in LookupAnswers(lookups[i].tickers) :
          /\ lookups' = AfterAnswer(lookups, i)
          /\ IF data.rejects
             THEN /\ error' = <<"Connection error">>
                  /\ pageResults' = <<>>
                  /\ UNCHANGED selectedCompany
             ELSE IF ~data.success
             THEN /\ error' = IF data.error # <<>> THEN data.error
                              ELSE <<"Failed to fetch data">>
                  /\ pageResults' = <<>>
                  /\ UNCHANGED selectedCompany
             ELSE /\ pageResults' = IF Len(data.data) > 1
                                    THEN SortByGrowthIndex(data.data, Len(data.data))
                                    ELSE data.data
                  /\ selectedCompany' = IF Len(pageResults') > 0 THEN pageResults'[1]
                                        ELSE selectedCompany
                  /\ UNCHANGED error
          /\ history' = [history EXCEPT !.events = @ + 1,
                            !.staleResults = lookups[i].overtaken,
                            !.outcome = IF data.rejects THEN "connection error"
                                        ELSE IF data.success THEN "success" ELSE "failure"]
    /\ isLoading' = FALSE
    /\ UNCHANGED <<inputValue, selectedTickers, suggestions, showSuggestions,
                   highlightedIndex, isSearching, searchTimeout, queries>>
    /\ UNCHANGED serverVars

PageNext ==
    \/ Input
    \/ SearchTimeoutFires
    \/ Focus
    \/ SuggestionsArrive
    \/ ClickSuggestion
    \/ KeyArrowDown
    \/ KeyArrowUp
    \/ KeyEnter
    \/ KeyCommaOrSpace
    \/ KeyBackspace
    \/ HideSuggestions
    \/ Paste
    \/ RemoveTicker
    \/ Clear
    \/ ClickAnalyze
    \/ LookupResponds

SpecPage == PageInit /\ [][PageNext]_vars

\* C25: after the response of a search() call, until the next search() or
\* clear(): on success, results are in non-increasing order of growthIndex
\* and selectedCompany is the first of them; on a failure or a connection
\* error, results is empty, error is a non-empty text and selectedCompany is
\* null; in every case isLoading is false.
C25_SearchOutcome ==
    /\ history.outcome = "success" =>
          /\ \A k \in 1..(Len(pageResults) - 1) :
                ~RatLess(pageResults[k].growthIndex, pageResults[k + 1].growthIndex)
          /\ Len(pageResults) > 0 => selectedCompany = pageResults[1]
    /\ history.outcome \in {"failure", "connection error"} =>
          /\ pageResults = <<>>
          /\ error # <<>>
          /\ selectedCompany = JSNull
    /\ history.outcome # "none" => ~isLoading

\* C28: isLoading is true whenever the request of a search() call awaits its
\* response, and results and error are never written by the response of a
\* search() call older than one that was answered already.
C28_LoadingWhileInFlight ==
    /\ lookups # <<>> => isLoading
    /\ ~history.staleResults

\* C29: selectedTickers never holds the same symbol twice.
C29_NoDuplicateTickers ==
    \A i, j \in 1..Len(selectedTickers) :
        i # j => selectedTickers[i].symbol # selectedTickers[j].symbol

\* C30: suggestions are never written by the response to a query older than
\* one that was answered already, and isSearching is false only when no
\* suggestion fetch awaits its response.
C30_NewestSuggestionsKept ==
    /\ ~history.staleSuggestions
    /\ ~isSearching => queries = <<>>

(***************************************************************************)
(* Further properties of the engine, checked under SpecCalc                *)
(***************************************************************************)
Within(x, target, tol) == RatLeq(RatAbs(RatSub(x, target)), tol)

\* calculateGrowthIndex has returned for the metrics of the worked example
WorkedExampleCall ==
    /\ Returned("calculateGrowthIndex")
    /\ call.metrics = [revenueCagr |-> Dec1(188), epsCagr |-> Dec1(667),
                       fcfCagr |-> Dec1(675), marginDelta |-> Dec1(83),
                       annualRevenueGrowth |-> <<Dec1(157), Dec1(219), Dec1(213)>>,
                       roic |-> Dec1(340), wacc |-> Dec1(127)]
    /\ call.weights = [revenue |-> Dec2(35), eps |-> Dec2(30),
                       fcf |-> Dec2(20), margin |-> Dec2(15)]

\* C13 as stated: for the worked example calculateGrowthIndex returns
\* baseScore within 0.1 of 38.62, consistencyFactor within 0.1 of 0.843,
\* qualityFactor 1.0 and growthIndex within 0.1 of 32.56.
C13_WorkedExampleAsStated ==
    WorkedExampleCall =>
        /\ Within(call.ret.baseScore, Dec2(3862), Dec1(1))
        /\ Within(call.ret.consistencyFactor, Dec3(843), Dec1(1))
        /\ call.ret.qualityFactor = One
        /\ Within(call.ret.growthIndex, Dec2(3256), Dec1(1))

\* C13 amended: for the worked example calculateGrowthIndex returns
\* baseScore within 0.1 of 41.34, consistencyFactor within 0.1 of 0.843,
\* qualityFactor 1.0 and growthIndex within 0.1 of 34.14.
C13_WorkedExample ==
    WorkedExampleCall =>
        /\ Within(call.ret.baseScore, Dec2(4134), Dec1(1))
        /\ Within(call.ret.consistencyFactor, Dec3(843), Dec1(1))
        /\ call.ret.qualityFactor = One
        /\ Within(call.ret.growthIndex, Dec2(3414), Dec1(1))

C13_Witness ==
    /\ WorkedExampleCall
    /\ call.ret.baseScore = Dec2(4134)
    /\ call.ret.consistencyFactor = Dec3(826)
    /\ call.ret.growthIndex = Dec2(3414)

SquaredVariation(values) ==
    LET n == Len(values)
        m == RatDiv(SeqSum(values), IntRat(n))
        ss == SeqSum([i \in 1..n |-> RatMul(RatSub(values[i], m), RatSub(values[i], m))])
    IN  RatDiv(RatDiv(ss, IntRat(n - 1)), RatMul(m, m))

\* x is 1 - sqrt(q) for the rational q >= 0
IsOneMinusRoot(x, q) ==
    LET d == RealAddRat(RealScale(IntRat(-1), x), One)
    IN  IF IsRational(d) THEN RatLeq(Zero, d.r) /\ RatMul(d.r, d.r) = q
        ELSE d.r = Zero /\ RatLess(Zero, d.c) /\ RatMul(RatMul(d.c, d.c), d.s) = q

RatPow(x, k) == <<IPow(x[1], k), IPow(x[2], k)>>

\* C12: calcCAGR(start, end, years) is 0 when years <= 0 or start = 0; with
\* years > 0 it is ((end-start)/|start|)*100/years when start < 0 < end,
\* ((end-start)/start)*100/years when end < 0 < start,
\* ((|start|-|end|)/|start|)*100/years when both are negative, and the
\* compound rate ((end/start)^(1/years) - 1)*100 when both are positive; so
\* calcCAGR(x, x, 3) = 0 for x > 0 and calcCAGR(-100, 50, 3) = 50.  Each
\* branch is stated free of division: r * years * |start| against the
\* difference, and (r/100 + 1)^years against end/start.
C12_CagrPiecewise ==
    Returned("calcCAGR") =>
        LET st == call.start
            en == call.end
            y  == call.years
            r  == call.ret
            scaled(d) == RatMul(RatMul(r, IntRat(y)), d)
            growth == RatAdd(RatDiv(r, IntRat(100)), One)
        IN  /\ (y <= 0 \/ st = Zero) => r = Zero
            /\ (y > 0 /\ RatLess(st, Zero) /\ RatLess(Zero, en))
                  => scaled(RatAbs(st)) = RatMul(RatSub(en, st), IntRat(100))
            /\ (y > 0 /\ RatLess(en, Zero) /\ RatLess(Zero, st))
                  => scaled(st) = RatMul(RatSub(en, st), IntRat(100))
            /\ (y > 0 /\ RatLess(st, Zero) /\ RatLess(en, Zero))
                  => scaled(RatAbs(st)) = RatMul(RatSub(RatAbs(st), RatAbs(en)), IntRat(100))
            /\ (y > 0 /\ RatLess(Zero, st) /\ RatLess(Zero, en))
                  => /\ RatLess(Zero, growth)
                     /\ RatMul(RatPow(growth, y), st) = en
            /\ (y = 3 /\ RatLess(Zero, st) /\ en = st) => r = Zero
            /\ (y = 3 /\ st = IntRat(-100) /\ en = IntRat(50)) => r = IntRat(50)

\* the Yahoo route's calcCAGR(-100, 50, 3) returned 50
C12_Witness ==
    /\ Returned("calcCAGR") /\ call.route = "yahoo"
    /\ call.start = IntRat(-100) /\ call.end = IntRat(50) /\ call.years = 3
    /\ call.ret = IntRat(50)

\* one company of the input with its score under the weights w
ScoredCompany(company, w) ==
    [name |-> company.name, ticker |-> company.ticker,
     result |-> calculateGrowthIndex(company.metrics, w), metrics |-> company.metrics]

\* C19: compareCompanies(companies, weights) returns one result per input
\* company, a permutation of the inputs each scored with the supplied
\* weights, in order of non-increasing result.growthIndex, and leaves the
\* input array as it was.
C19_ComparePermutationSorted ==
    Returned("compareCompanies") =>
        LET n == Len(call.companies)
        IN  /\ Len(call.ret) = n
            /\ \E perm \in [1..n -> 1..n] :
                  /\ \A i \in 1..n, j \in 1..n : perm[i] = perm[j] => i = j
                  /\ \A i \in 1..n :
                        call.ret[i] = ScoredCompany(call.companies[perm[i]], call.weights)
            /\ \A i \in 1..n, j \in 1..n :
                  i < j => RatLeq(call.ret[j].result.growthIndex,
                                  call.ret[i].result.growthIndex)
            /\ call.after = call.companies

\* three companies given in rising order of growth index came back reordered
C19_Witness ==
    /\ Returned("compareCompanies")
    /\ Len(call.companies) = 3
    /\ \A i \in 1..2 :
          RatLess(ScoredCompany(call.companies[i], call.weights).result.growthIndex,
                  ScoredCompany(call.companies[i + 1], call.weights).result.growthIndex)
    /\ call.ret[1].ticker = call.companies[3].ticker
    /\ call.ret[3].ticker = call.companies[1].ticker

\* the route's calcCAGR
CagrOf(route, start, end, years) ==
    IF route = "yahoo" THEN calcCAGR(start, end, years) ELSE AVcalcCAGR(start, end, years)

\* C26: for a fixed nonzero start and years = 3 calcCAGR is non-decreasing in
\* end: end1 <= end2 implies calcCAGR(start, end1, 3) <= calcCAGR(start, end2, 3),
\* across end = 0 and across a sign change of end as well.
C26_CagrMonotoneInEnd ==
    (Returned("calcCAGR") /\ call.years = 3 /\ call.start # Zero) =>
        \A end2 \in CagrVals :
            (/\ RatLeq(call.end, end2)
             /\ ReachesPow(call.start, end2, 3)
                   => IsPerfectPower(RatDiv(end2, call.start), 3))
                => RatLeq(call.ret, CagrOf(call.route, call.start, end2, 3))

====
